---- MODULE Spec2Model ----
(***************************************************************************)
(* Event-coordination core of the chicken-coop IoT workshop agent:         *)
(*   - the shared event store   (tools/utils/shared-memory-tool.ts)        *)
(*   - the feed scheduler       (tools/chicken-coop/feed-schedule.ts)      *)
(*   - topic matching, the subscription registry and the message           *)
(*     dispatcher               (tools/mqtt/mqtt-subscribe.ts)             *)
(*   - the temperature evaluator (tools/chicken-coop/feeder-control.ts)    *)
(* Instants are milliseconds since the epoch, as Date.getTime() gives them. *)
(* An ISO timestamp string is represented by the instant it denotes.       *)
(***************************************************************************)
EXTENDS Integers, Sequences, FiniteSets, Bags, TLC

VARIABLES
    now,                \* wall clock (Date.now()), in ms
    sensorMemoryStore,  \* shared-memory-tool.ts: the event array
    appended,           \* ghost: number of events ever appended to the store
    storeResult,        \* result of the shared-memory tool call made in this step
    feedingRecords,     \* feed-schedule.ts: Map coopId -> FeedingRecord
    scheduledReminders, \* feed-schedule.ts: Map coopId -> timer handle
    timers,             \* the runtime's pending single-shot timers
    approvalCallback,   \* feed-schedule.ts: TRUE when a callback is registered
    pending,            \* reports suspended at "await requestApproval(...)"
    outcome,            \* outcome of the report that completed in this step
    probe,              \* mqtt-subscribe.ts: one call of topicMatches and its result
    connected,          \* mqtt-connection.ts: mqttClient is set and client.connected
    listening,          \* number of times handleMessage is a "message" listener
    subscriptions,      \* mqtt-subscribe.ts: the Map topic -> Subscription, in insertion order
    subCalls,           \* bag of the subscribe calls waiting for the transport's answers
    unsubCalls,         \* unsubscribe calls waiting for the transport's answer
    mqttResult,         \* result of the mqtt-subscribe call that returned in this step
    delivery,           \* ghost: the message handleMessage processed in this step
    delivered,          \* ghost: number of messages handleMessage has processed
    pausedSince,        \* ghost: patterns paused by a call and not resumed by a call since
    bridgeEnabled,      \* mqtt-subscribe.ts: the memory bridge's handler is a "message" listener
    lastCallTime,       \* feeder-control.ts: time of the last call the limiter let through
    tempCache,          \* feeder-control.ts: Map coopId -> TempReading
    tempResult,         \* outcome of the coop-temp-alert call made in this step
    accepted,           \* ghost: the last call that was not rate-limited
    cachedAt,           \* ghost: Map coopId -> time of the last tempCache.set(coopId, ...)
    ticks,              \* ghost: number of clock steps of the evaluator's or the publisher's clock
    publishQueue,       \* mqtt-publish.ts: messages queued while disconnected, oldest first
    queueInterval,      \* mqtt-publish.ts: TRUE when the queue processor's interval is set
    publishing,         \* client.publish calls whose callback is still to come
    pubResult           \* what the publisher's step of this moment did and returned

storeVars == <<sensorMemoryStore, appended, storeResult>>
feedVars == <<feedingRecords, scheduledReminders, timers, approvalCallback, pending, outcome>>
matchVars == <<probe>>
\* the variables of the components other than the store and the feed scheduler
mqttVars == <<connected, listening, subscriptions, subCalls, unsubCalls, mqttResult,
              delivery, delivered, pausedSince, bridgeEnabled>>
tempVars == <<lastCallTime, tempCache, tempResult, accepted, cachedAt, ticks>>
pubVars == <<publishQueue, queueInterval, publishing, pubResult>>
peerVars == <<matchVars, mqttVars, tempVars, pubVars>>
vars == <<now, sensorMemoryStore, appended, storeResult, feedingRecords,
          scheduledReminders, timers, approvalCallback, pending, outcome, peerVars>>

----------------------------------------------------------------------------
(* Bounds of the model *)

\* only the first MaxVaried appends of a run draw their content freely
MaxVaried == 1
\* appends made in one run of the store specification
MaxAppends == 102
\* the clock stops at MaxNowHours hours
MaxNowHours == 6
\* reports that may be suspended at the approval gate at the same time
MaxPending == 1
\* timer handles the runtime can hand out (handles of dead timers are reused)
MaxTimers == 3
\* subscribe calls, and unsubscribe calls, that may wait for the transport
\* at the same time
MaxInFlight == 1
\* inbound messages handled in one run
MaxMessages == 2
\* sensor events appended in one run of the evaluator specification
MaxTempEvents == 1
\* clock steps in one run of the evaluator specification
MaxTempTicks == 2

\* messages in the publish queue or handed to the transport and not answered
MaxOutstanding == 1

\* steps of the publisher's clock
MaxPubTicks == 2

\* store calls that append in a run of the tool specification
MaxToolStores == 2

\* events stored in a run of the cache specification
MaxCacheEvents == 2
\* longest topic and longest pattern, in segments, given to topicMatches
MaxSegs == 3

----------------------------------------------------------------------------
(* Generic helpers *)

EmptyMap == [k \in {} |-> 0]

MapSet(m, k, v) == [x \in (DOMAIN m) \cup {k} |-> IF x = k THEN v ELSE m[x]]

MapDelete(m, k) == [x \in (DOMAIN m) \ {k} |-> m[x]]

Min(a, b) == IF a < b THEN a ELSE b

\* an optional string argument that was not passed
UndefinedStr == "<undefined>"

StrTruthy(s) == s # UndefinedStr /\ s # ""

----------------------------------------------------------------------------
(* Shared event store: shared-memory-tool.ts *)

STORE_CAPACITY == 100

\* payload values (z.any()): undefined, a number, a raw string, an object
\* with or without a temperature field
DataUndefined == [kind |-> "undefined", num |-> 0]
DataNumber(n) == [kind |-> "number", num |-> n]
DataObject(t) == [kind |-> "object", num |-> t]
\* the raw text "hot", the empty text and the boolean false
DataText == [kind |-> "string", num |-> 0]
DataEmptyText == [kind |-> "empty-string", num |-> 0]
DataFalse == [kind |-> "false", num |-> 0]
DataObjectWithout == [kind |-> "object-without-temperature", num |-> 0]
\* the value JSON.parse gives for the text "null"
DataNull == [kind |-> "null", num |-> 0]

\* JavaScript truthiness of a payload value
DataTruthy(d) == CASE d.kind \in {"undefined", "null", "false", "empty-string"} -> FALSE
                   [] d.kind = "number" -> d.num # 0
                   [] OTHER -> TRUE

\* haystack.includes(needle)
Includes(haystack, needle) ==
    \E i \in 1..(Len(haystack) - Len(needle) + 1) :
        SubSeq(haystack, i, i + Len(needle) - 1) = needle

\* s.toLowerCase(), for strings of ASCII characters
ToLowerCase(s) ==
    LET upper == "ABCDEFGHIJKLMNOPQRSTUVWXYZ"
        lower == "abcdefghijklmnopqrstuvwxyz"
        LowerChar(c) == IF \E i \in 1..26 : SubSeq(upper, i, i) = c
                        THEN LET i == CHOOSE i \in 1..26 : SubSeq(upper, i, i) = c
                             IN SubSeq(lower, i, i)
                        ELSE c
        RECURSIVE Lower(_)
        Lower(i) == IF i > Len(s) THEN ""
                    ELSE LowerChar(SubSeq(s, i, i)) \o Lower(i + 1)
    IN Lower(1)

\* JSON.stringify(data); undefined for an undefined payload
JsonStringify(d) ==
    CASE d.kind = "object" -> "{\"temperature\":" \o ToString(d.num) \o "}"
      [] d.kind = "object-without-temperature" -> "{\"zone\":\"a\"}"
      [] d.kind = "number" -> ToString(d.num)
      [] d.kind = "string" -> "\"hot\""
      [] d.kind = "empty-string" -> "\"\""
      [] d.kind = "false" -> "false"
      [] d.kind = "null" -> "null"
      [] OTHER -> UndefinedStr

NoStoreResult == [called |-> "none", success |-> FALSE, count |-> 0]

\* mutant: the eviction test is off by one ("length > 101")
PushEvictLate(store, ev) ==
    LET pushed == Append(store, ev)
    IN IF Len(pushed) > STORE_CAPACITY + 1 THEN Tail(pushed) ELSE pushed

\* mutant: pop() instead of shift(), the newest event is evicted
PushEvictNewest(store, ev) ==
    LET pushed == Append(store, ev)
    IN IF Len(pushed) > STORE_CAPACITY THEN SubSeq(pushed, 1, Len(pushed) - 1)
       ELSE pushed

\* push(...) followed by "if (length > 100) shift()"
PushEvict(store, ev) ==
    LET pushed == Append(store, ev)
    IN IF Len(pushed) > STORE_CAPACITY THEN Tail(pushed) ELSE pushed

NewEvent(topic, data, analysis) ==
    [id |-> appended + 1, topic |-> topic, data |-> data,
     timestamp |-> now, analysis |-> analysis]

\* sharedMemoryTool.execute, case 'store'
StoreTool(topic, data, analysis) ==
    /\ appended < MaxAppends
    /\ IF ~StrTruthy(topic) \/ ~DataTruthy(data)
       THEN /\ storeResult' = [called |-> "store", success |-> FALSE, count |-> 0]
            /\ UNCHANGED <<sensorMemoryStore, appended>>
       ELSE LET ev == NewEvent(topic, data,
                               IF StrTruthy(analysis) THEN analysis
                               ELSE "No analysis provided")
                st == PushEvict(sensorMemoryStore, ev)
            IN /\ sensorMemoryStore' = st
               /\ appended' = appended + 1
               /\ storeResult' = [called |-> "store", success |-> TRUE, count |-> Len(st)]
    /\ UNCHANGED <<now, feedVars, peerVars>>

\* addSensorData(topic, data, analysis = '')
AddSensorData(topic, data, analysis) ==
    /\ appended < MaxAppends
    /\ LET ev == NewEvent(topic, data,
                          IF analysis = UndefinedStr THEN "" ELSE analysis)
       IN sensorMemoryStore' = PushEvict(sensorMemoryStore, ev)
    /\ appended' = appended + 1
    /\ storeResult' = NoStoreResult
    /\ UNCHANGED <<now, feedVars, peerVars>>

\* the callback of the query's filter: TRUE, FALSE, or "throws" when the
\* payload is undefined and neither topic nor analysis holds the term
EntryMatches(entry, searchTerm) ==
    IF Includes(ToLowerCase(entry.topic), searchTerm) THEN "true"
    ELSE IF Includes(ToLowerCase(entry.analysis), searchTerm) THEN "true"
    ELSE IF JsonStringify(entry.data) = UndefinedStr THEN "throws"
    ELSE IF Includes(ToLowerCase(JsonStringify(entry.data)), searchTerm) THEN "true"
    ELSE "false"

\* sharedMemoryTool.execute, case 'query'
QueryTool(query) ==
    /\ IF ~StrTruthy(query)
       THEN storeResult' = [called |-> "query", success |-> FALSE, count |-> 0]
       ELSE LET searchTerm == ToLowerCase(query)
                hit(e) == EntryMatches(e, searchTerm)
            IN IF \E i \in 1..Len(sensorMemoryStore) : hit(sensorMemoryStore[i]) = "throws"
               THEN storeResult' = [called |-> "query throws TypeError",
                                    success |-> FALSE, count |-> 0]
               ELSE LET results == SelectSeq(sensorMemoryStore, LAMBDA e : hit(e) = "true")
                    IN storeResult' = [called |-> "query", success |-> TRUE,
                                       count |-> Len(results), results |-> results]
    /\ UNCHANGED <<now, sensorMemoryStore, appended, feedVars, peerVars>>

\* sharedMemoryTool.execute, case 'list_all': count is the length a reader sees
ListAll ==
    /\ storeResult' = [called |-> "list_all", success |-> TRUE,
                       count |-> Len(sensorMemoryStore)]
    /\ UNCHANGED <<now, sensorMemoryStore, appended, feedVars, peerVars>>

\* inputs of the store specification: free for the first MaxVaried appends,
\* the default content afterwards
StoreTopics == IF appended < MaxVaried THEN {UndefinedStr, "coop/temp", "coop/door"}
               ELSE {"coop/temp"}
StoreData == IF appended < MaxVaried THEN {DataUndefined, DataNumber(0), DataObject(70)}
             ELSE {DataObject(70)}
StoreAnalyses == IF appended < MaxVaried THEN {UndefinedStr, "note"} ELSE {"note"}

StoreToolStep == \E t \in StoreTopics, d \in StoreData, a \in StoreAnalyses : StoreTool(t, d, a)

\* inputs of the tool specification: every topic and payload is passed, and
\* may be falsy
ToolTopics == {"coop/temp", "coop/door", ""}

ToolData == {DataObject(70), DataText, DataNumber(0), DataEmptyText, DataFalse}

ToolQueries == {"", "Temp", "hot", "zzz"}

ToolStoreStep ==
    /\ appended < MaxToolStores
    /\ \E t \in ToolTopics, d \in ToolData, a \in {UndefinedStr, "note"} : StoreTool(t, d, a)

ToolQueryStep == \E q \in ToolQueries : QueryTool(q)

\* the dispatcher always passes a topic string and an analysis string
AddSensorDataStep ==
    \E t \in StoreTopics \ {UndefinedStr}, d \in StoreData, a \in StoreAnalyses \ {UndefinedStr} :
        AddSensorData(t, d, a)

----------------------------------------------------------------------------
(* Feed scheduler: feed-schedule.ts *)

MsPerHour == 60 * 60 * 1000

MsPerMinute == 60000

MIN_INTERVAL_HOURS == 1

MAX_INTERVAL_HOURS == 48

APPROVAL_THRESHOLD_HOURS == 6

OVERDUE_MINUTES == 60

MAX_TIMEOUT == 2147483647

DEFAULT_COOP == "main"

Coops == {DEFAULT_COOP, "north"}

\* the lastFedAt argument: not passed, the empty string, a string that is
\* no timestamp, or an ISO timestamp (represented by its instant)
LastFedUndefined == [kind |-> "undefined", ms |-> 0]
LastFedEmpty == [kind |-> "empty", ms |-> 0]
LastFedGarbage == [kind |-> "garbage", ms |-> 0]
LastFedIso(t) == [kind |-> "iso", ms |-> t]

\* mutant: "if (lastFedAt !== '')", an argument that was not passed counts
\* as supplied
LastFedTruthyLoose(s) == s.kind # "empty"

\* truthiness of the lastFedAt argument, "if (lastFedAt)"
LastFedTruthy(s) == s.kind \notin {"undefined", "empty"}

\* mutant: the isNaN check is missing, every string yields a date
ParseDateLenient(s) == [valid |-> TRUE, time |-> s.ms]

\* new Date(lastFedAt): valid only for a timestamp string
ParseDate(s) == IF s.kind = "iso" THEN [valid |-> TRUE, time |-> s.ms]
                ELSE [valid |-> FALSE, time |-> 0]

\* mutant: "intervalHours < 0 || intervalHours > 48"
IntervalInvalidLoose(intervalHours) ==
    intervalHours < 0 \/ intervalHours > MAX_INTERVAL_HOURS

\* "intervalHours < 1 || intervalHours > 48"
IntervalInvalid(intervalHours) ==
    intervalHours < MIN_INTERVAL_HOURS \/ intervalHours > MAX_INTERVAL_HOURS

\* the record built from a report's lastFedAt and intervalHours
MakeRecord(coopId, fedTime, intervalHours) ==
    [lastFedAt |-> fedTime,
     nextFeedAt |-> fedTime + intervalHours * MsPerHour,
     coopId |-> coopId,
     intervalHours |-> intervalHours]

\* mutant: "now > record.nextFeedAt", the feeding instant itself is not due
IsDueStrict(t, record) == t > record.nextFeedAt

\* "now >= record.nextFeedAt"
IsDue(t, record) == t >= record.nextFeedAt

\* which of the four status messages the report carries
StatusMessage(t, record) ==
    LET timeUntilNext == record.nextFeedAt - t
        overdueMins == (t - record.nextFeedAt) \div MsPerMinute
    IN IF IsDue(t, record)
       THEN IF overdueMins > OVERDUE_MINUTES THEN "overdue" ELSE "due"
       ELSE IF timeUntilNext < MsPerHour THEN "soon" ELSE "onschedule"

\* mutant: "if (intervalHours < 5)"
NeedsApprovalBelowFive(intervalHours) == intervalHours < APPROVAL_THRESHOLD_HOURS - 1

\* "if (intervalHours < 6)": the report must pass the approval gate
NeedsApproval(intervalHours) == intervalHours < APPROVAL_THRESHOLD_HOURS

\* handles free for a new timer of coopId: not held by a pending timer nor by
\* another coop's entry of the reminder map (the coop's own entry is overwritten)
FreeTimerIds(coopId) ==
    (1..MaxTimers) \ ({t.id : t \in timers}
                      \cup {scheduledReminders[c] : c \in (DOMAIN scheduledReminders) \ {coopId}})

\* the handle setTimeout returns
NewTimerId(coopId) == CHOOSE n \in FreeTimerIds(coopId) : \A m \in FreeTimerIds(coopId) : n <= m

\* mutant: the existing timer is not cleared
ClearExistingNot(tms, rem, coopId) == tms

\* clearTimeout(existing) for the coop's entry in the reminder map
ClearExisting(tms, rem, coopId) ==
    IF coopId \in DOMAIN rem THEN {t \in tms : t.id # rem[coopId]} ELSE tms

\* scheduleReminder(coopId, feedTime) run at instant t with fresh handle id:
\* the reminder map, the pending timers and the returned boolean
ScheduleReminder(rem, tms, coopId, feedTime, t, id) ==
    LET cleared == ClearExisting(tms, rem, coopId)
        timeUntil == feedTime - t
    IN IF timeUntil <= 0
       THEN [rem |-> rem, tms |-> cleared, armed |-> FALSE]
       ELSE [rem |-> MapSet(rem, coopId, id),
             tms |-> cleared \cup {[id |-> id, coopId |-> coopId,
                                    fireAt |-> t + Min(timeUntil, MAX_TIMEOUT)]},
             armed |-> TRUE]

\* Instants and durations beyond 2^31 - 1 ms: a number of ms written as whole
\* hours plus ms within the hour, 0 <= ms < MsPerHour (h < 0 for a negative one)
Wide(h, ms) == [h |-> h, ms |-> ms]

WideFromMs(n) == Wide(n \div MsPerHour, n % MsPerHour)

\* a - b
WideSub(a, b) ==
    IF a.ms >= b.ms THEN Wide(a.h - b.h, a.ms - b.ms)
    ELSE Wide(a.h - b.h - 1, a.ms - b.ms + MsPerHour)

\* a <= b
WideLeq(a, b) == a.h < b.h \/ (a.h = b.h /\ a.ms <= b.ms)

\* a > 0
WidePositive(a) == a.h > 0 \/ (a.h = 0 /\ a.ms > 0)

\* Math.min(a, b)
WideMin(a, b) == IF WideLeq(a, b) THEN a ELSE b

\* 2147483647 ms: 596 h 31 min 23.647 s
MaxTimeoutWide == WideFromMs(MAX_TIMEOUT)

\* mutant: the delay is not clamped, "setTimeout(..., timeUntil)"
ReminderDelayUnclamped(timeUntil) == timeUntil

\* "Math.min(timeUntil, 2147483647)", the delay handed to setTimeout
ReminderDelay(timeUntil) == WideMin(timeUntil, MaxTimeoutWide)

\* the delay the runtime's setTimeout uses for a requested one: a request
\* below 1 ms or above 2^31 - 1 ms is replaced by 1 ms
SetTimeoutDelay(delay) ==
    IF WidePositive(delay) /\ WideLeq(delay, MaxTimeoutWide) THEN delay ELSE Wide(0, 1)

\* scheduleReminder(coopId, feedTime) for a feedTime of any distance, run at
\* instant t with fresh handle id; the timer keeps the call's feedTime and
\* instant, the delay requested and the delay the runtime uses (after)
ScheduleReminderWide(rem, tms, coopId, feedTime, t, id) ==
    LET cleared == ClearExisting(tms, rem, coopId)
        timeUntil == WideSub(feedTime, WideFromMs(t))
    IN IF ~WidePositive(timeUntil)
       THEN [rem |-> rem, tms |-> cleared, armed |-> FALSE]
       ELSE [rem |-> MapSet(rem, coopId, id),
             tms |-> cleared \cup {[id |-> id, coopId |-> coopId,
                                    feedTime |-> feedTime, armedAt |-> t,
                                    delay |-> ReminderDelay(timeUntil),
                                    after |-> SetTimeoutDelay(ReminderDelay(timeUntil))]},
             armed |-> TRUE]

\* the arguments of a report, after the schema's defaults
Call(coopId, lastFedAt, intervalHours, wantReminder) ==
    [coopId |-> coopId, lastFedAt |-> lastFedAt, intervalHours |-> intervalHours,
     scheduleReminder |-> wantReminder]

\* no report completed in this step
NoOutcome ==
    [kind |-> "none", error |-> "", call |-> Call("", LastFedUndefined, 0, FALSE),
     lastFedAt |-> 0, nextAt |-> 0, due |-> FALSE, status |-> "", note |-> "",
     reminderScheduled |-> FALSE, gate |-> "none"]

\* a report rejected with an Error; gate tells how requestApproval ended
Failure(error, call, gate) ==
    [NoOutcome EXCEPT !.kind = "error", !.error = error, !.call = call, !.gate = gate]

\* the object a report returns: status is the leading message, note what
\* the reminder branch appended to it
Result(record, call, due, status, note, reminderScheduled, gate) ==
    [kind |-> "result", error |-> "", call |-> call,
     lastFedAt |-> record.lastFedAt, nextAt |-> record.nextFeedAt,
     due |-> due, status |-> status, note |-> note,
     reminderScheduled |-> reminderScheduled, gate |-> gate]

\* mutant: without a callback requestApproval answers false instead of throwing
RequestApprovalDefaultDeny(registered) == IF registered THEN "await" ELSE "denied"

\* requestApproval(request): with a registered callback the caller waits for
\* its answer ("await"); without one it throws ("unregistered")
RequestApproval(registered) == IF registered THEN "await" ELSE "unregistered"

\* the reminder branch of feedScheduleTool.execute (lines 93-123) once the
\* approval outcome is known; answer is "none" when no approval was needed
FinishReport(call, record, isDue, status, answer) ==
    LET res(note, armed) == Result(record, call, isDue, status, note, armed, answer)
    IN CASE answer \in {"threw", "unregistered"} ->
              /\ outcome' = Failure(IF answer = "threw" THEN "GateError"
                                    ELSE "ApprovalRequired", call, answer)
              /\ UNCHANGED <<scheduledReminders, timers>>
         [] answer = "denied" ->
              /\ outcome' = res("denied", FALSE)
              /\ UNCHANGED <<scheduledReminders, timers>>
         [] answer \in {"approved", "none"} ->
              /\ FreeTimerIds(call.coopId) # {}
              /\ LET s == ScheduleReminder(scheduledReminders, timers, call.coopId,
                                           record.nextFeedAt, now,
                                           NewTimerId(call.coopId))
                 IN /\ scheduledReminders' = s.rem
                    /\ timers' = s.tms
                    /\ outcome' = res("scheduled", s.armed)

\* the lowest free slot for a suspended report
FreeSlot ==
    CHOOSE n \in 1..MaxPending :
        /\ n \notin {p.slot : p \in pending}
        /\ \A m \in 1..(n - 1) : m \in {p.slot : p \in pending}

\* mutant: a report that has to pass the approval gate does not store its
\* record before the gate
ReportGateFirst(coopId, lastFedAt, intervalHours, wantReminder) ==
    LET fedTime == ParseDate(lastFedAt)
        call == Call(coopId, lastFedAt, intervalHours, wantReminder)
    IN
    /\ UNCHANGED <<now, storeVars, peerVars, approvalCallback>>
    /\ IF IntervalInvalid(intervalHours)
       THEN /\ outcome' = Failure("InvalidInterval", call, "none")
            /\ UNCHANGED <<feedingRecords, scheduledReminders, timers, pending>>
       ELSE IF LastFedTruthy(lastFedAt) /\ ~fedTime.valid
       THEN /\ outcome' = Failure("InvalidTimestamp", call, "none")
            /\ UNCHANGED <<feedingRecords, scheduledReminders, timers, pending>>
       ELSE IF ~LastFedTruthy(lastFedAt) /\ coopId \notin DOMAIN feedingRecords
       THEN /\ outcome' = Failure("NoFeedingHistory", call, "none")
            /\ UNCHANGED <<feedingRecords, scheduledReminders, timers, pending>>
       ELSE
         LET record == IF LastFedTruthy(lastFedAt)
                       THEN MakeRecord(coopId, fedTime.time, intervalHours)
                       ELSE feedingRecords[coopId]
             isDue == IsDue(now, record)
             status == StatusMessage(now, record)
         IN
         /\ feedingRecords' = IF LastFedTruthy(lastFedAt)
                                 /\ ~(wantReminder /\ ~isDue /\ NeedsApproval(intervalHours))
                              THEN MapSet(feedingRecords, coopId, record)
                              ELSE feedingRecords
         /\ IF ~(wantReminder /\ ~isDue)
            THEN /\ outcome' = Result(record, call, isDue, status, "", FALSE, "none")
                 /\ UNCHANGED <<scheduledReminders, timers, pending>>
            ELSE IF NeedsApproval(intervalHours)
                    /\ RequestApproval(approvalCallback) = "await"
            THEN \* approvalCallback(request) is called; the report waits
                 /\ Cardinality(pending) < MaxPending
                 /\ pending' = pending \cup
                        {[slot |-> FreeSlot, call |-> call, record |-> record,
                          isDue |-> isDue, status |-> status]}
                 /\ outcome' = NoOutcome
                 /\ UNCHANGED <<scheduledReminders, timers>>
            ELSE /\ FinishReport(call, record, isDue, status,
                                 IF NeedsApproval(intervalHours)
                                 THEN RequestApproval(approvalCallback) ELSE "none")
                 /\ UNCHANGED pending

\* feedScheduleTool.execute up to its return, its throw, or its suspension at
\* "await requestApproval(...)"
Report(coopId, lastFedAt, intervalHours, wantReminder) ==
    LET fedTime == ParseDate(lastFedAt)
        call == Call(coopId, lastFedAt, intervalHours, wantReminder)
    IN
    /\ UNCHANGED <<now, storeVars, peerVars, approvalCallback>>
    /\ IF IntervalInvalid(intervalHours)
       THEN /\ outcome' = Failure("InvalidInterval", call, "none")
            /\ UNCHANGED <<feedingRecords, scheduledReminders, timers, pending>>
       ELSE IF LastFedTruthy(lastFedAt) /\ ~fedTime.valid
       THEN /\ outcome' = Failure("InvalidTimestamp", call, "none")
            /\ UNCHANGED <<feedingRecords, scheduledReminders, timers, pending>>
       ELSE IF ~LastFedTruthy(lastFedAt) /\ coopId \notin DOMAIN feedingRecords
       THEN /\ outcome' = Failure("NoFeedingHistory", call, "none")
            /\ UNCHANGED <<feedingRecords, scheduledReminders, timers, pending>>
       ELSE
         LET record == IF LastFedTruthy(lastFedAt)
                       THEN MakeRecord(coopId, fedTime.time, intervalHours)
                       ELSE feedingRecords[coopId]
             isDue == IsDue(now, record)
             status == StatusMessage(now, record)
         IN
         /\ feedingRecords' = IF LastFedTruthy(lastFedAt)
                              THEN MapSet(feedingRecords, coopId, record)
                              ELSE feedingRecords
         /\ IF ~(wantReminder /\ ~isDue)
            THEN /\ outcome' = Result(record, call, isDue, status, "", FALSE, "none")
                 /\ UNCHANGED <<scheduledReminders, timers, pending>>
            ELSE IF NeedsApproval(intervalHours)
                    /\ RequestApproval(approvalCallback) = "await"
            THEN \* approvalCallback(request) is called; the report waits
                 /\ Cardinality(pending) < MaxPending
                 /\ pending' = pending \cup
                        {[slot |-> FreeSlot, call |-> call, record |-> record,
                          isDue |-> isDue, status |-> status]}
                 /\ outcome' = NoOutcome
                 /\ UNCHANGED <<scheduledReminders, timers>>
            ELSE /\ FinishReport(call, record, isDue, status,
                                 IF NeedsApproval(intervalHours)
                                 THEN RequestApproval(approvalCallback) ELSE "none")
                 /\ UNCHANGED pending

\* the approval callback settles: the suspended report resumes after the await
ApprovalReturn(p, answer) ==
    /\ p \in pending
    /\ pending' = pending \ {p}
    /\ UNCHANGED <<now, storeVars, peerVars, approvalCallback, feedingRecords>>
    /\ FinishReport(p.call, p.record, p.isDue, p.status, answer)

\* mutant: the callback behaves like an interval's, its timer stays pending
FireTimerRepeating(t) ==
    /\ t \in timers
    /\ now >= t.fireAt
    /\ timers' = timers
    /\ scheduledReminders' = MapDelete(scheduledReminders, t.coopId)
    /\ outcome' = [NoOutcome EXCEPT !.kind = "reminder", !.call.coopId = t.coopId]
    /\ UNCHANGED <<now, storeVars, peerVars, feedingRecords, approvalCallback, pending>>

\* the setTimeout callback of scheduleReminder runs
FireTimer(t) ==
    /\ t \in timers
    /\ now >= t.fireAt
    /\ timers' = timers \ {t}
    /\ scheduledReminders' = MapDelete(scheduledReminders, t.coopId)
    /\ outcome' = [NoOutcome EXCEPT !.kind = "reminder", !.call.coopId = t.coopId]
    /\ UNCHANGED <<now, storeVars, peerVars, feedingRecords, approvalCallback, pending>>

\* setApprovalCallback(callback)
SetApprovalCallback ==
    /\ approvalCallback' = TRUE
    /\ outcome' = NoOutcome
    /\ UNCHANGED <<now, storeVars, peerVars, feedingRecords, scheduledReminders, timers, pending>>

\* the wall clock advances
TickMs == 6 * MsPerHour

Tick ==
    /\ now + TickMs <= MaxNowHours * MsPerHour
    /\ now' = now + TickMs
    /\ outcome' = NoOutcome
    /\ storeResult' = NoStoreResult
    /\ UNCHANGED <<sensorMemoryStore, appended, feedingRecords, scheduledReminders,
                   timers, approvalCallback, pending, peerVars>>

\* scheduleReminder(coopId, record.nextFeedAt) as the report calls it (lines
\* 108 and 112), for a nextFeedAt at any distance from now
ScheduleReminderCall(coopId, feedTime) ==
    /\ FreeTimerIds(coopId) # {}
    /\ LET s == ScheduleReminderWide(scheduledReminders, timers, coopId, feedTime,
                                     now, NewTimerId(coopId))
       IN /\ scheduledReminders' = s.rem
          /\ timers' = s.tms
          /\ outcome' = [NoOutcome EXCEPT !.kind = "scheduleReminder",
                                          !.call.coopId = coopId,
                                          !.nextAt = feedTime,
                                          !.reminderScheduled = s.armed]
    /\ UNCHANGED <<now, storeVars, peerVars, feedingRecords, approvalCallback, pending>>

\* nextFeedAt instants around the clock's values (0 and TickMs) and around
\* 2147483647 ms after them, up to a year ahead
FarFeedTimes ==
    {WideFromMs(TickMs), WideFromMs(TickMs + 1),
     MaxTimeoutWide, Wide(MaxTimeoutWide.h, MaxTimeoutWide.ms + 1),
     Wide(MaxTimeoutWide.h + 6, MaxTimeoutWide.ms),
     Wide(MaxTimeoutWide.h + 6, MaxTimeoutWide.ms + 1),
     Wide(8760, 0)}

ScheduleReminderCallStep ==
    \E c \in Coops, f \in FarFeedTimes : ScheduleReminderCall(c, f)

\* lastFedAt instants that, with a 1-hour interval and the clock at TickMs,
\* put nextFeedAt at now, 60 and 61 minutes before it and in between, and
\* 1 ms, just under an hour and a full hour after it
StatusLastFed ==
    {5 * MsPerHour, 4 * MsPerHour, 4 * MsPerHour - 30000,
     4 * MsPerHour - MsPerMinute + 1, 4 * MsPerHour - MsPerMinute,
     5 * MsPerHour + 1, 6 * MsPerHour - 1, 6 * MsPerHour}

\* reports that only ask for the status
StatusReportStep ==
    \E c \in Coops, t \in StatusLastFed : Report(c, LastFedIso(t), 1, FALSE)

LastFedInputs == {LastFedUndefined, LastFedEmpty, LastFedGarbage, LastFedIso(MsPerHour)}

IntervalInputs == {0, 5, 6, 49}

GateAnswers == {"approved", "denied", "threw"}

\* reports with well-formed arguments, for either coop
ReportStep ==
    \E c \in Coops, l \in {LastFedUndefined, LastFedIso(MsPerHour)},
       i \in {5, 6}, r \in BOOLEAN :
        Report(c, l, i, r)

\* reports with any arguments, for the default coop
AnyReportStep ==
    \E l \in LastFedInputs, i \in IntervalInputs, r \in BOOLEAN :
        Report(DEFAULT_COOP, l, i, r)

ApprovalReturnStep == \E p \in pending, a \in GateAnswers : ApprovalReturn(p, a)

FireTimerStep == \E t \in timers : FireTimer(t)

----------------------------------------------------------------------------
(* Topic matching: mqtt-subscribe.ts                                       *)
(* A topic or pattern string is represented by what split("/") makes of    *)
(* it: the non-empty sequence of its segments.                             *)

\* sequences of 1..n segments drawn from S
SegSeqs(S, n) == UNION {[1..k -> S] : k \in 1..n}

\* mutant: the final length comparison is dropped (a prefix match)
topicMatchesPrefix(actualParts, subParts) ==
    LET RECURSIVE Loop(_)
        Loop(i) ==
            IF i > Len(subParts) THEN TRUE
            ELSE IF subParts[i] = "#" THEN TRUE
            ELSE IF subParts[i] = "+" THEN Loop(i + 1)
            ELSE IF i > Len(actualParts) \/ subParts[i] # actualParts[i] THEN FALSE
            ELSE Loop(i + 1)
    IN Loop(1)

\* topicMatches(actualTopic, subscriptionTopic): Loop(i) is the for loop
\* from index i (1-based here), the last branch is the return after the loop
topicMatches(actualParts, subParts) ==
    LET RECURSIVE Loop(_)
        Loop(i) ==
            IF i > Len(subParts) THEN Len(actualParts) = Len(subParts)
            ELSE IF subParts[i] = "#" THEN TRUE
            ELSE IF subParts[i] = "+" THEN Loop(i + 1)
            ELSE IF i > Len(actualParts) \/ subParts[i] # actualParts[i] THEN FALSE
            ELSE Loop(i + 1)
    IN Loop(1)

NoProbe == [topic |-> <<"a">>, pattern |-> <<"a">>, done |-> FALSE, result |-> FALSE]

LiteralSegs == {"a", "b"}

PatternSegs == LiteralSegs \cup {"+", "#"}

\* a call topicMatches(topic, pattern) returns
MatchStep ==
    /\ ~probe.done
    /\ probe' = [probe EXCEPT !.done = TRUE,
                              !.result = topicMatches(probe.topic, probe.pattern)]
    /\ UNCHANGED <<now, storeVars, feedVars, mqttVars, tempVars, pubVars>>

----------------------------------------------------------------------------
(* Subscription registry and message dispatcher: mqtt-subscribe.ts *)

\* keys a payload object or a filter may carry; Absent stands for a key
\* that is not there (reading it gives undefined)
FieldKeys == {"type", "zone"}

Absent == "<absent>"

NoFields == [k \in FieldKeys |-> Absent]

\* config.filter: undefined, or a record of expected values
NoFilter == [defined |-> FALSE, fields |-> NoFields]
Filter(f) == [defined |-> TRUE, fields |-> f]

\* the text of an inbound message: JSON of an object, the JSON literals
\* null and 42, or text that is not JSON
MsgObject(f) == [kind |-> "json-object", num |-> 0, fields |-> f]
MsgNull == [kind |-> "json-null", num |-> 0, fields |-> NoFields]
MsgNumber(n) == [kind |-> "json-number", num |-> n, fields |-> NoFields]
MsgText == [kind |-> "text", num |-> 0, fields |-> NoFields]

\* "try { JSON.parse(message.toString()) } catch { message.toString() }":
\* the value handed on, tagged with what typeof and the field reads give
ParseMessage(msg) ==
    CASE msg.kind = "json-object" -> [kind |-> "object", num |-> 0, fields |-> msg.fields]
      [] msg.kind = "json-null" -> [kind |-> "null", num |-> 0, fields |-> NoFields]
      [] msg.kind = "json-number" -> [kind |-> "number", num |-> msg.num, fields |-> NoFields]
      [] OTHER -> [kind |-> "string", num |-> 0, fields |-> NoFields]

\* typeof v === "object" (true of null as well)
TypeofObject(v) == v.kind \in {"object", "null"}

\* the topic string whose split("/") is parts
JoinTopic(parts) ==
    LET RECURSIVE Join(_)
        Join(i) == IF i = Len(parts) THEN parts[i]
                   ELSE parts[i] \o "/" \o Join(i + 1)
    IN Join(1)

\* extractDeviceId(topic); every segment of the model is alphanumeric
extractDeviceId(parts) ==
    IF parts[1] = "devices" /\ Len(parts) >= 2 THEN parts[2]
    ELSE IF parts[1] = "sensors" /\ Len(parts) >= 3 THEN parts[3]
    ELSE IF parts[1] = "home" /\ Len(parts) >= 4 THEN parts[4]
    ELSE IF Len(parts) >= 2 /\ \E i \in 1..Len(parts) : Len(parts[i]) > 2
         THEN parts[CHOOSE i \in 1..Len(parts) :
                        /\ Len(parts[i]) > 2
                        /\ \A j \in 1..(i - 1) : Len(parts[j]) <= 2]
    ELSE IF parts[1] # "" THEN parts[1]
    ELSE "device_"

\* determineMessageType(topic, message): the topic keywords are looked up
\* per segment; the payload objects of the model carry none of the keys the
\* content test reads
determineMessageType(parts, message) ==
    LET has(words) == \E i \in 1..Len(parts) : parts[i] \in words
    IN IF has({"telemetry", "data", "sensors"}) THEN "telemetry"
       ELSE IF has({"status", "state"}) THEN "status"
       ELSE IF has({"command", "control"}) THEN "command"
       ELSE IF has({"alert", "alarm", "error"}) THEN "alert"
       ELSE "other"

\* Map operations on the registry, a sequence of Subscription objects in
\* insertion order
SubKeys(subs) == {subs[i].topic : i \in 1..Len(subs)}

SubIndex(subs, p) == CHOOSE i \in 1..Len(subs) : subs[i].topic = p

SubGet(subs, p) == subs[SubIndex(subs, p)]

\* mutant: set() adds a second entry for a key that is present
SubSetAppend(subs, p, e) == Append(subs, e)

\* subscriptions.set(p, e)
SubSet(subs, p, e) ==
    IF p \in SubKeys(subs) THEN [subs EXCEPT ![SubIndex(subs, p)] = e]
    ELSE Append(subs, e)

\* subscriptions.delete(p)
SubDelete(subs, p) == SelectSeq(subs, LAMBDA e : e.topic # p)

NoMqttResult ==
    [action |-> "none", success |-> FALSE, status |-> "", topic |-> <<>>,
     subscribed |-> <<>>, failed |-> <<>>, size |-> 0]

MqttResult(action, success, status, topic) ==
    [NoMqttResult EXCEPT !.action = action, !.success = success,
                         !.status = status, !.topic = topic]

\* issued: the number of client.publish calls the step made
NoPubResult == [action |-> "none", success |-> FALSE, status |-> "", issued |-> 0, size |-> 0]

NoDelivery == [handled |-> FALSE, topic |-> <<>>, msg |-> MsgText,
               storedBy |-> <<>>, erred |-> <<>>]

\* an optional topic argument that was not passed; "" is <<"">>
UndefinedTopic == <<>>

TopicFalsy(t) == t = UndefinedTopic \/ t = <<"">>

\* parseInt(config.qos)
ParseQos(q) == CASE q = "0" -> 0 [] q = "1" -> 1 [] q = "2" -> 2

InitMqtt ==
    /\ connected = FALSE
    /\ listening = 0
    /\ subscriptions = <<>>
    /\ subCalls = EmptyBag
    /\ unsubCalls = {}
    /\ mqttResult = NoMqttResult
    /\ delivery = NoDelivery
    /\ delivered = 0
    /\ pausedSince = {}
    /\ bridgeEnabled = FALSE

\* actions of this component leave the store, the feed scheduler and the
\* matching probe alone unless they say otherwise
MqttFrame ==
    /\ pubResult' = NoPubResult
    /\ UNCHANGED <<now, feedVars, matchVars, tempVars, publishQueue, queueInterval, publishing>>
    /\ UNCHANGED bridgeEnabled

\* the mqtt-connection tool's client reports "connect"
Connect ==
    /\ ~connected
    /\ connected' = TRUE
    /\ mqttResult' = NoMqttResult
    /\ delivery' = NoDelivery
    /\ UNCHANGED <<listening, subscriptions, subCalls, unsubCalls, delivered, pausedSince>>
    /\ UNCHANGED storeVars
    /\ MqttFrame

\* the connection drops; the client object and its listeners stay
ConnectionLost ==
    /\ connected
    /\ connected' = FALSE
    /\ mqttResult' = NoMqttResult
    /\ delivery' = NoDelivery
    /\ UNCHANGED <<listening, subscriptions, subCalls, unsubCalls, delivered, pausedSince>>
    /\ UNCHANGED storeVars
    /\ MqttFrame

\* a tool call that returns at once with the given result
ReturnNow(result) ==
    /\ mqttResult' = result
    /\ delivery' = NoDelivery
    /\ UNCHANGED <<connected, listening, subscriptions, subCalls, unsubCalls,
                   delivered, pausedSince>>
    /\ UNCHANGED storeVars
    /\ MqttFrame

NotConnected(action) == MqttResult(action, FALSE, "MQTT client not connected", <<>>)

\* client.listenerCount("message"): the dispatcher's registrations and the
\* memory bridge's handler
ListenerCount == listening + (IF bridgeEnabled THEN 1 ELSE 0)

\* the waiting calls once call has got an answer and become next
Progressed(call, next) == (subCalls (-) SetToBag({call})) (+) SetToBag({next})

\* the waiting calls once call has resolved
Resolved(call) == subCalls (-) SetToBag({call})

\* execute, case "subscribe", up to the requests handed to the transport
Subscribe(hasConfig, topics, qos, filter) ==
    IF ~connected THEN ReturnNow(NotConnected("subscribe"))
    ELSE IF ~hasConfig
    THEN ReturnNow(MqttResult("subscribe", FALSE,
                              "Configuration required for subscribe action", <<>>))
    ELSE /\ BagCardinality(subCalls) < MaxInFlight
         /\ subCalls' = subCalls (+) SetToBag(
                {[topics |-> topics, qos |-> ParseQos(qos), filter |-> filter,
                  waiting |-> 1..Len(topics), subscribed |-> <<>>, failed |-> <<>>]})
         /\ mqttResult' = NoMqttResult
         /\ delivery' = NoDelivery
         /\ UNCHANGED <<connected, listening, subscriptions, unsubCalls,
                        delivered, pausedSince>>
         /\ UNCHANGED storeVars
         /\ MqttFrame

\* mutant: the call resolves on the first answer instead of the last
SubAckFirstAnswer(call, i, err) ==
    LET topicStr == call.topics[i]
        subscribed == IF err THEN call.subscribed ELSE Append(call.subscribed, topicStr)
        failed == IF err THEN Append(call.failed, topicStr) ELSE call.failed
        subs == IF err THEN subscriptions
                ELSE SubSet(subscriptions, topicStr,
                            [topic |-> topicStr, qos |-> call.qos,
                             filter |-> call.filter, paused |-> FALSE])
    IN /\ BagIn(call, subCalls)
       /\ i \in call.waiting
       /\ subscriptions' = subs
       /\ subCalls' = Resolved(call)
       /\ listening' = IF ListenerCount = 0 THEN listening + 1 ELSE listening
       /\ mqttResult' = [MqttResult("subscribe", Len(subscribed) > 0,
                                    "Subscribed to " \o ToString(Len(subscribed))
                                        \o " topic(s)", <<>>)
                           EXCEPT !.subscribed = subscribed, !.failed = failed,
                                  !.size = Len(subs)]
       /\ delivery' = NoDelivery
       /\ UNCHANGED <<connected, unsubCalls, delivered, pausedSince>>
       /\ UNCHANGED storeVars
       /\ MqttFrame

\* mutant: an acknowledged subscribe keeps the paused flag of an entry it
\* replaces
SubAckKeepPaused(call, i, err) ==
    LET topicStr == call.topics[i]
        subscribed == IF err THEN call.subscribed ELSE Append(call.subscribed, topicStr)
        failed == IF err THEN Append(call.failed, topicStr) ELSE call.failed
        subs == IF err THEN subscriptions
                ELSE SubSet(subscriptions, topicStr,
                            [topic |-> topicStr, qos |-> call.qos,
                             filter |-> call.filter,
                             paused |-> topicStr \in SubKeys(subscriptions)
                                           /\ SubGet(subscriptions, topicStr).paused])
        waiting == call.waiting \ {i}
    IN /\ BagIn(call, subCalls)
       /\ i \in call.waiting
       /\ subscriptions' = subs
       /\ IF waiting = {}
          THEN /\ subCalls' = Resolved(call)
               /\ listening' = IF ListenerCount = 0 THEN listening + 1 ELSE listening
               /\ mqttResult' = [MqttResult("subscribe", Len(subscribed) > 0,
                                            "Subscribed to " \o ToString(Len(subscribed))
                                                \o " topic(s)", <<>>)
                                   EXCEPT !.subscribed = subscribed, !.failed = failed,
                                          !.size = Len(subs)]
          ELSE /\ subCalls' = Progressed(call, [call EXCEPT !.waiting = waiting,
                                                              !.subscribed = subscribed,
                                                              !.failed = failed])
               /\ mqttResult' = NoMqttResult
               /\ UNCHANGED listening
       /\ delivery' = NoDelivery
       /\ UNCHANGED <<connected, unsubCalls, delivered, pausedSince>>
       /\ UNCHANGED storeVars
       /\ MqttFrame

\* the callback of client.subscribe for the i-th topic of a call
SubAck(call, i, err) ==
    LET topicStr == call.topics[i]
        subscribed == IF err THEN call.subscribed ELSE Append(call.subscribed, topicStr)
        failed == IF err THEN Append(call.failed, topicStr) ELSE call.failed
        subs == IF err THEN subscriptions
                ELSE SubSet(subscriptions, topicStr,
                            [topic |-> topicStr, qos |-> call.qos,
                             filter |-> call.filter, paused |-> FALSE])
        waiting == call.waiting \ {i}
    IN /\ BagIn(call, subCalls)
       /\ i \in call.waiting
       /\ subscriptions' = subs
       /\ IF waiting = {}
          THEN /\ subCalls' = Resolved(call)
               /\ listening' = IF ListenerCount = 0 THEN listening + 1 ELSE listening
               /\ mqttResult' = [MqttResult("subscribe", Len(subscribed) > 0,
                                            "Subscribed to " \o ToString(Len(subscribed))
                                                \o " topic(s)", <<>>)
                                   EXCEPT !.subscribed = subscribed, !.failed = failed,
                                          !.size = Len(subs)]
          ELSE /\ subCalls' = Progressed(call, [call EXCEPT !.waiting = waiting,
                                                              !.subscribed = subscribed,
                                                              !.failed = failed])
               /\ mqttResult' = NoMqttResult
               /\ UNCHANGED listening
       /\ delivery' = NoDelivery
       /\ UNCHANGED <<connected, unsubCalls, delivered, pausedSince>>
       /\ UNCHANGED storeVars
       /\ MqttFrame

\* execute, case "unsubscribe", up to the request handed to the transport
Unsubscribe(topic) ==
    IF ~connected THEN ReturnNow(NotConnected("unsubscribe"))
    ELSE IF TopicFalsy(topic)
    THEN ReturnNow(MqttResult("unsubscribe", FALSE,
                              "Topic required for unsubscribe action", topic))
    ELSE /\ Cardinality(unsubCalls) < MaxInFlight
         /\ topic \notin unsubCalls
         /\ unsubCalls' = unsubCalls \cup {topic}
         /\ mqttResult' = NoMqttResult
         /\ delivery' = NoDelivery
         /\ UNCHANGED <<connected, listening, subscriptions, subCalls,
                        delivered, pausedSince>>
         /\ UNCHANGED storeVars
         /\ MqttFrame

\* the callback of client.unsubscribe
UnsubAck(topic, err) ==
    /\ topic \in unsubCalls
    /\ unsubCalls' = unsubCalls \ {topic}
    /\ IF err
       THEN /\ mqttResult' = MqttResult("unsubscribe", FALSE, "Failed to unsubscribe", topic)
            /\ UNCHANGED <<subscriptions, pausedSince>>
       ELSE LET subs == SubDelete(subscriptions, topic)
            IN /\ subscriptions' = subs
               /\ pausedSince' = pausedSince \ {topic}
               /\ mqttResult' = [MqttResult("unsubscribe", TRUE,
                                            "Unsubscribed from " \o JoinTopic(topic), topic)
                                   EXCEPT !.size = Len(subs)]
    /\ delivery' = NoDelivery
    /\ UNCHANGED <<connected, listening, subCalls, delivered>>
    /\ UNCHANGED storeVars
    /\ MqttFrame

\* execute, case "list_subscriptions"
ListSubscriptions ==
    IF ~connected THEN ReturnNow(NotConnected("list_subscriptions"))
    ELSE ReturnNow([MqttResult("list_subscriptions", TRUE,
                               ToString(Len(subscriptions)) \o " active subscription(s)",
                               <<>>)
                      EXCEPT !.size = Len(subscriptions)])

\* "pauseSub.paused = true" / "resumeSub.paused = false" on the Map's object
SetPaused(subs, topic, flag) == [subs EXCEPT ![SubIndex(subs, topic)].paused = flag]

\* execute, cases "pause" (flag TRUE) and "resume" (flag FALSE)
PauseResume(action, topic, flag) ==
    IF ~connected THEN ReturnNow(NotConnected(action))
    ELSE IF TopicFalsy(topic)
    THEN ReturnNow(MqttResult(action, FALSE,
                              "Topic required for " \o action \o " action", topic))
    ELSE IF topic \notin SubKeys(subscriptions)
    THEN ReturnNow(MqttResult(action, FALSE, "Subscription not found", topic))
    ELSE /\ subscriptions' = SetPaused(subscriptions, topic, flag)
         /\ pausedSince' = IF flag THEN pausedSince \cup {topic} ELSE pausedSince \ {topic}
         /\ mqttResult' = MqttResult(action, TRUE,
                                     (IF flag THEN "Paused subscription to "
                                      ELSE "Resumed subscription to ")
                                         \o JoinTopic(topic), topic)
         /\ delivery' = NoDelivery
         /\ UNCHANGED <<connected, listening, subCalls, unsubCalls, delivered>>
         /\ UNCHANGED storeVars
         /\ MqttFrame

Pause(topic) == PauseResume("pause", topic, TRUE)

Resume(topic) == PauseResume("resume", topic, FALSE)

\* mqttMemoryBridgeTool.execute, case "enable": client.on('message', messageHandler)
BridgeEnable ==
    IF ~connected
    THEN ReturnNow(MqttResult("enable", FALSE, "MQTT client not connected. Connect first.",
                              <<>>))
    ELSE IF bridgeEnabled
    THEN ReturnNow(MqttResult("enable", TRUE, "Memory bridge already enabled", <<>>))
    ELSE /\ bridgeEnabled' = TRUE
         /\ mqttResult' = MqttResult("enable", TRUE,
                                     "MQTT messages will now be stored in agent memory", <<>>)
         /\ delivery' = NoDelivery
         /\ pubResult' = NoPubResult
         /\ UNCHANGED <<connected, listening, subscriptions, subCalls, unsubCalls,
                        delivered, pausedSince>>
         /\ UNCHANGED <<now, storeVars, feedVars, matchVars, tempVars, publishQueue,
                        queueInterval, publishing>>

\* mqttMemoryBridgeTool.execute, case "disable":
\* client.removeListener('message', messageHandler)
BridgeDisable ==
    IF ~bridgeEnabled
    THEN ReturnNow(MqttResult("disable", TRUE, "Memory bridge already disabled", <<>>))
    ELSE /\ bridgeEnabled' = FALSE
         /\ mqttResult' = MqttResult("disable", TRUE, "MQTT memory storage disabled", <<>>)
         /\ delivery' = NoDelivery
         /\ pubResult' = NoPubResult
         /\ UNCHANGED <<connected, listening, subscriptions, subCalls, unsubCalls,
                        delivered, pausedSince>>
         /\ UNCHANGED <<now, storeVars, feedVars, matchVars, tempVars, publishQueue,
                        queueInterval, publishing>>

\* mutant: the paused flag is not looked at
SubOutcomeNoPause(sub, parsed) ==
    IF sub.filter.defined /\ TypeofObject(parsed)
    THEN LET expected == {k \in FieldKeys : sub.filter.fields[k] # Absent}
         IN IF parsed.kind = "null" /\ expected # {} THEN "error"
            ELSE IF \A k \in expected : parsed.fields[k] = sub.filter.fields[k]
            THEN "stored"
            ELSE "filtered"
    ELSE "stored"

\* what one matching subscription does with the parsed message:
\* the body of the forEach callback
SubOutcome(sub, parsed) ==
    IF sub.paused THEN "paused"
    ELSE IF sub.filter.defined /\ TypeofObject(parsed)
    THEN LET expected == {k \in FieldKeys : sub.filter.fields[k] # Absent}
         IN IF parsed.kind = "null" /\ expected # {} THEN "error"
            ELSE IF \A k \in expected : parsed.fields[k] = sub.filter.fields[k]
            THEN "stored"
            ELSE "filtered"
    ELSE "stored"

\* mutant: the first subscription that does not store ends the loop
DispatchUntilSkip(subs, topic, msg, store, n) ==
    LET matching == SelectSeq(subs, LAMBDA e : topicMatches(topic, e.topic))
        parsed == ParseMessage(msg)
        RECURSIVE Loop(_, _)
        Loop(i, acc) ==
            IF i > Len(matching) THEN acc
            ELSE IF SubOutcome(matching[i], parsed) = "stored"
            THEN Loop(i + 1,
                      [acc EXCEPT !.store = PushEvict(acc.store,
                                      [NewEvent(JoinTopic(topic), parsed, "Received")
                                         EXCEPT !.id = acc.appended + 1]),
                                  !.appended = acc.appended + 1,
                                  !.storedBy = Append(acc.storedBy, matching[i].topic)])
            ELSE acc
    IN Loop(1, [store |-> store, appended |-> n, storedBy |-> <<>>, erred |-> <<>>])

\* mutant: the events are handed to the store after the callback returned
DispatchDeferred(subs, topic, msg, store, n) ==
    LET matching == SelectSeq(subs, LAMBDA e : topicMatches(topic, e.topic))
        parsed == ParseMessage(msg)
        RECURSIVE Loop(_, _)
        Loop(i, acc) ==
            IF i > Len(matching) THEN acc
            ELSE LET what == SubOutcome(matching[i], parsed)
                 IN IF what = "stored"
                    THEN Loop(i + 1, [acc EXCEPT !.storedBy = Append(acc.storedBy,
                                                                     matching[i].topic)])
                    ELSE IF what = "error"
                    THEN Loop(i + 1, [acc EXCEPT !.erred = Append(acc.erred, matching[i].topic)])
                    ELSE Loop(i + 1, acc)
    IN Loop(1, [store |-> store, appended |-> n, storedBy |-> <<>>, erred |-> <<>>])

\* handleMessage(topic, message): the matching subscriptions, in Map
\* order, each append one event unless paused, filtered out or failing
Dispatch(subs, topic, msg, store, n) ==
    LET matching == SelectSeq(subs, LAMBDA e : topicMatches(topic, e.topic))
        parsed == ParseMessage(msg)
        analysis == "Received " \o determineMessageType(topic, parsed)
                        \o " message from " \o extractDeviceId(topic)
        RECURSIVE Loop(_, _)
        Loop(i, acc) ==
            IF i > Len(matching) THEN acc
            ELSE LET what == SubOutcome(matching[i], parsed)
                 IN IF what = "stored"
                    THEN Loop(i + 1,
                              [acc EXCEPT !.store = PushEvict(acc.store,
                                              [NewEvent(JoinTopic(topic), parsed, analysis)
                                                 EXCEPT !.id = acc.appended + 1]),
                                          !.appended = acc.appended + 1,
                                          !.storedBy = Append(acc.storedBy, matching[i].topic)])
                    ELSE IF what = "error"
                    THEN Loop(i + 1, [acc EXCEPT !.erred = Append(acc.erred, matching[i].topic)])
                    ELSE Loop(i + 1, acc)
    IN Loop(1, [store |-> store, appended |-> n, storedBy |-> <<>>, erred |-> <<>>])

\* the "message" event of the client reaches handleMessage
HandleMessage(topic, msg) ==
    /\ connected
    /\ listening > 0
    /\ delivered < MaxMessages
    /\ LET done == Dispatch(subscriptions, topic, msg, sensorMemoryStore, appended)
       IN /\ sensorMemoryStore' = done.store
          /\ appended' = done.appended
          /\ delivery' = [handled |-> TRUE, topic |-> topic, msg |-> msg,
                          storedBy |-> done.storedBy, erred |-> done.erred]
    /\ delivered' = delivered + 1
    /\ storeResult' = NoStoreResult
    /\ mqttResult' = NoMqttResult
    /\ UNCHANGED <<connected, listening, subscriptions, subCalls, unsubCalls, pausedSince>>
    /\ MqttFrame

\* inputs of the registry and dispatcher specifications
MqttPatterns == {<<"coop", "temp">>, <<"coop", "+">>}

\* any topic first, the same topic from then on
MqttTopics ==
    IF delivered = 0 THEN {<<"coop", "temp">>, <<"coop", "door">>, <<"barn", "temp">>}
    ELSE {<<"coop", "temp">>}

TempZoneA == [k \in FieldKeys |-> IF k = "type" THEN "temp" ELSE "a"]

TempZoneB == [k \in FieldKeys |-> IF k = "type" THEN "temp" ELSE "b"]

MqttFilters == {NoFilter, Filter(TempZoneA)}

\* any message first, the same accepted message from then on
MqttMessages ==
    IF delivered = 0
    THEN {MsgObject(TempZoneA), MsgObject(TempZoneB), MsgText, MsgNull, MsgNumber(42)}
    ELSE {MsgObject(TempZoneA)}

SubscribeOneStep ==
    \E p \in MqttPatterns, f \in MqttFilters : Subscribe(TRUE, <<p>>, "1", f)

\* topic lists of a subscribe call: either pattern, or both
MqttTopicLists ==
    {<<p>> : p \in MqttPatterns} \cup {<<<<"coop", "temp">>, <<"coop", "+">>>>}

\* config of a subscribe call: qos "0" unfiltered or qos "1" filtered
MqttConfigs == {[qos |-> "0", filter |-> NoFilter], [qos |-> "1", filter |-> Filter(TempZoneA)]}

SubscribeStep ==
    \/ \E ts \in MqttTopicLists, c \in MqttConfigs : Subscribe(TRUE, ts, c.qos, c.filter)
    \/ Subscribe(FALSE, <<>>, "1", NoFilter)

\* topic lists of a subscribe call, the empty array among them
AnyTopicLists == MqttTopicLists \cup {<<>>}

SubscribeAnyStep ==
    \E ts \in AnyTopicLists, c \in MqttConfigs : Subscribe(TRUE, ts, c.qos, c.filter)

SubAckOkStep == \E call \in BagToSet(subCalls) : \E i \in call.waiting : SubAck(call, i, FALSE)

SubAckStep == \E call \in BagToSet(subCalls) : \E i \in call.waiting, err \in BOOLEAN : SubAck(call, i, err)

UnsubscribeStep == \E p \in MqttPatterns \cup {UndefinedTopic} : Unsubscribe(p)

UnsubAckStep == \E p \in unsubCalls, err \in BOOLEAN : UnsubAck(p, err)

PauseStep == \E p \in MqttPatterns : Pause(p)

ResumeStep == \E p \in MqttPatterns : Resume(p)

HandleMessageStep == \E t \in MqttTopics, m \in MqttMessages : HandleMessage(t, m)

----------------------------------------------------------------------------
(* Publisher: mqtt-publish.ts, and the command tools of feeder-control.ts  *)

\* the period of the queue processor's interval
QUEUE_PERIOD == 1000

\* a failed queued message is put back while it is younger than this
REQUEUE_WINDOW == 300000

\* publishQueue.splice(0, 10)
QUEUE_BATCH == 10

InitPub ==
    /\ publishQueue = <<>>
    /\ queueInterval = FALSE
    /\ publishing = <<>>
    /\ pubResult = NoPubResult

PubResult(action, success, status) ==
    [NoPubResult EXCEPT !.action = action, !.success = success, !.status = status]

\* actions of the publisher leave the other components alone, and end the
\* moment of the registry's last result
PubFrame ==
    /\ mqttResult' = NoMqttResult
    /\ delivery' = NoDelivery
    /\ UNCHANGED <<connected, listening, subscriptions, subCalls, unsubCalls,
                   delivered, pausedSince, bridgeEnabled>>
    /\ UNCHANGED <<storeVars, feedVars, matchVars>>
    /\ UNCHANGED <<lastCallTime, tempCache, tempResult, accepted, cachedAt>>

\* the messages queued and the calls awaiting their callback
Outstanding == Len(publishQueue) + Len(publishing)

\* a publish call that returns at once
PubReturnNow(result) ==
    /\ pubResult' = result
    /\ UNCHANGED <<now, ticks, publishQueue, queueInterval, publishing>>
    /\ PubFrame

\* a call of client.publish whose callback is awaited: of one message
\* (kind "publish", "clear", "command" or "queued") or of a batch; only a
\* queued message carries the time it was queued at
Issued(kind, timestamp, n) ==
    [kind |-> kind, timestamp |-> timestamp, waiting |-> n, succeeded |-> 0, failed |-> 0]

\* startQueueProcessor(): the interval is set unless it is set already
StartQueueProcessor(interval) == TRUE

\* mqttPublishTool.execute, up to the requests handed to the transport;
\* messages is the length of the batch, oversize says that the message
\* passed is longer than 1 MB; of a message only the time of queueing is kept
PublishTool(action, hasConfig, oversize, messages, hasTopic) ==
    IF ~connected
    THEN IF action \in {"publish", "publish_retained"} /\ hasConfig
         THEN /\ Outstanding < MaxOutstanding
              /\ publishQueue' = Append(publishQueue, [timestamp |-> now])
              /\ queueInterval' = StartQueueProcessor(queueInterval)
              /\ pubResult' = [PubResult(action, TRUE, "Message queued (client disconnected)")
                                 EXCEPT !.size = Len(publishQueue) + 1]
              /\ UNCHANGED <<now, ticks, publishing>>
              /\ PubFrame
         ELSE PubReturnNow(PubResult(action, FALSE, "MQTT client not connected"))
    ELSE CASE action \in {"publish", "publish_retained"} ->
                IF ~hasConfig
                THEN PubReturnNow(PubResult(action, FALSE,
                                            "Configuration required for " \o action \o " action"))
                ELSE IF oversize
                THEN PubReturnNow(PubResult(action, FALSE, "Message size exceeds limit (1MB)"))
                ELSE /\ Outstanding < MaxOutstanding
                     /\ publishing' = Append(publishing,
                            Issued("publish", 0, 1))
                     /\ pubResult' = [NoPubResult EXCEPT !.issued = 1]
                     /\ UNCHANGED <<now, ticks, publishQueue, queueInterval>>
                     /\ PubFrame
           [] action = "publish_batch" ->
                IF messages = 0
                THEN PubReturnNow(PubResult(action, FALSE,
                                            "Messages array required for batch publish"))
                ELSE /\ Outstanding < MaxOutstanding
                     /\ publishing' = Append(publishing, Issued("batch", 0, messages))
                     /\ pubResult' = [NoPubResult EXCEPT !.issued = messages]
                     /\ UNCHANGED <<now, ticks, publishQueue, queueInterval>>
                     /\ PubFrame
           [] action = "clear_retained" ->
                IF ~hasTopic
                THEN PubReturnNow(PubResult(action, FALSE,
                                            "Topic required for clear_retained action"))
                ELSE /\ Outstanding < MaxOutstanding
                     /\ publishing' = Append(publishing, Issued("clear", 0, 1))
                     /\ pubResult' = [NoPubResult EXCEPT !.issued = 1]
                     /\ UNCHANGED <<now, ticks, publishQueue, queueInterval>>
                     /\ PubFrame

\* feederControlTool.execute and coopControlsTool.execute, up to the
\* command handed to the transport
CommandTool(valid) ==
    IF ~connected
    THEN PubReturnNow(PubResult("command", FALSE, "MQTT client not connected"))
    ELSE IF ~valid
    THEN PubReturnNow(PubResult("command", FALSE, "Invalid action"))
    ELSE /\ Outstanding < MaxOutstanding
         /\ publishing' = Append(publishing, Issued("command", 0, 1))
         /\ pubResult' = [NoPubResult EXCEPT !.issued = 1]
         /\ UNCHANGED <<now, ticks, publishQueue, queueInterval>>
         /\ PubFrame

RemoveAt(seq, i) == SubSeq(seq, 1, i - 1) \o SubSeq(seq, i + 1, Len(seq))

\* the messages the processor takes in one tick, each handed to the transport
QueuedCalls(items) ==
    [i \in 1..Len(items) |-> Issued("queued", items[i].timestamp, 1)]

\* mutant: a tick sends the queue whether or not the client is connected
QueueTickNoCheck ==
    /\ queueInterval
    /\ ticks < MaxPubTicks
    /\ ticks' = ticks + 1
    /\ now' = now + QUEUE_PERIOD
    /\ LET toProcess == SubSeq(publishQueue, 1, Min(QUEUE_BATCH, Len(publishQueue)))
       IN /\ publishQueue' = SubSeq(publishQueue, Len(toProcess) + 1, Len(publishQueue))
          /\ publishing' = publishing \o QueuedCalls(toProcess)
          /\ pubResult' = [PubResult("tick", TRUE, "") EXCEPT !.issued = Len(toProcess)]
          /\ UNCHANGED queueInterval
    /\ PubFrame

\* the callback of the interval set by startQueueProcessor, one period on
QueueTick ==
    /\ queueInterval
    /\ ticks < MaxPubTicks
    /\ ticks' = ticks + 1
    /\ now' = now + QUEUE_PERIOD
    /\ IF ~connected \/ publishQueue = <<>>
       THEN /\ queueInterval' = (publishQueue # <<>>)
            /\ pubResult' = PubResult("tick", TRUE, "")
            /\ UNCHANGED <<publishQueue, publishing>>
       ELSE LET toProcess == SubSeq(publishQueue, 1, Min(QUEUE_BATCH, Len(publishQueue)))
            IN /\ publishQueue' = SubSeq(publishQueue, Len(toProcess) + 1, Len(publishQueue))
               /\ publishing' = publishing \o QueuedCalls(toProcess)
               /\ pubResult' = [PubResult("tick", TRUE, "") EXCEPT !.issued = Len(toProcess)]
               /\ UNCHANGED queueInterval
    /\ PubFrame

\* the callback of the i-th pending client.publish call, with or without
\* an error
PublishAck(i, err) ==
    /\ i \in 1..Len(publishing)
    /\ LET call == publishing[i]
           rest == RemoveAt(publishing, i)
       IN CASE call.kind = "queued" ->
                 /\ publishing' = rest
                 /\ publishQueue' =
                       IF err /\ now - call.timestamp < REQUEUE_WINDOW
                       THEN Append(publishQueue, [timestamp |-> call.timestamp])
                       ELSE publishQueue
                 /\ pubResult' = PubResult("queued", ~err, "")
            [] call.kind = "batch" ->
                 LET succeeded == call.succeeded + (IF err THEN 0 ELSE 1)
                     failed == call.failed + (IF err THEN 1 ELSE 0)
                 IN IF call.waiting > 1
                    THEN /\ publishing' = [publishing EXCEPT ![i] =
                                [call EXCEPT !.waiting = call.waiting - 1,
                                             !.succeeded = succeeded, !.failed = failed]]
                         /\ pubResult' = NoPubResult
                         /\ UNCHANGED publishQueue
                    ELSE /\ publishing' = rest
                         /\ pubResult' = PubResult("publish_batch", succeeded > 0,
                                "Published " \o ToString(succeeded) \o " message(s), "
                                    \o ToString(failed) \o " failed")
                         /\ UNCHANGED publishQueue
            [] OTHER ->
                 /\ publishing' = rest
                 /\ pubResult' = PubResult(call.kind, ~err,
                                           IF err THEN "Publish failed" ELSE "Published")
                 /\ UNCHANGED publishQueue
    /\ UNCHANGED <<now, ticks, queueInterval>>
    /\ PubFrame

\* time passes while no tick of the queue processor would do anything:
\* no interval is set, or the client is disconnected and the queue holds
\* messages
Elapse(d) ==
    /\ ~queueInterval \/ (~connected /\ publishQueue # <<>>)
    /\ ticks < MaxPubTicks
    /\ ticks' = ticks + 1
    /\ now' = now + d
    /\ pubResult' = NoPubResult
    /\ UNCHANGED <<publishQueue, queueInterval, publishing>>
    /\ PubFrame

\* inputs of the publisher specification
PublishActions == {"publish", "publish_batch", "publish_retained", "clear_retained"}

PublishToolStep ==
    \E a \in PublishActions, hasConfig \in BOOLEAN, oversize \in BOOLEAN :
        PublishTool(a, hasConfig, oversize, IF hasConfig THEN 2 ELSE 0, hasConfig)

PublishOneStep == PublishTool("publish", TRUE, FALSE, 0, FALSE)

\* registry calls about the one topic coop/temp
SubscribeTempStep == Subscribe(TRUE, <<<<"coop", "temp">>>>, "1", NoFilter)

UnsubscribeTempStep == Unsubscribe(<<"coop", "temp">>)

UnsubAckOkStep == \E p \in unsubCalls : UnsubAck(p, FALSE)

PauseTempStep == Pause(<<"coop", "temp">>)

CommandToolStep == \E valid \in BOOLEAN : CommandTool(valid)

PublishAckStep == \E i \in 1..Len(publishing), err \in BOOLEAN : PublishAck(i, err)

ElapseStep == \E d \in {REQUEUE_WINDOW - 2 * QUEUE_PERIOD, REQUEUE_WINDOW} : Elapse(d)

----------------------------------------------------------------------------
(* Temperature safety evaluator: feeder-control.ts (coop-temp-alert)       *)
(* Temperatures are whole degrees Fahrenheit.                              *)

STALE_DATA_THRESHOLD == 2 * 60 * 1000

RATE_LIMIT_INTERVAL == 5 * 1000

CACHE_MS == 30000

NoReading == [temperature |-> 0, timestamp |-> 0, source |-> "none"]

NoTempResult ==
    [kind |-> "none", status |-> "none", message |-> "none", current |-> 0,
     timestamp |-> 0, source |-> "none",
     call |-> [coopId |-> DEFAULT_COOP, minSafe |-> 0, maxSafe |-> 0]]

InitTempVars ==
    /\ lastCallTime = 0
    /\ tempCache = EmptyMap
    /\ tempResult = NoTempResult
    /\ accepted = [any |-> FALSE, at |-> 0, coopId |-> DEFAULT_COOP]
    /\ cachedAt = EmptyMap
    /\ ticks = 0

\* what "entry.data.temperature" gives: a value, undefined, or a TypeError
\* when data is null or undefined
TemperatureOf(data) ==
    CASE data.kind = "object" -> [kind |-> "value", num |-> data.num]
      [] data.kind \in {"null", "undefined"} -> [kind |-> "throws", num |-> 0]
      [] OTHER -> [kind |-> "undefined", num |-> 0]

\* entry.topic.includes('temp'), for the topics of the model
TopicIncludesTemp(topic) == topic \in {"coop/temp", "barn/temp"}

\* fetchFromSharedMemory(coopId): the filter visits the events in order and
\* throws at the first temp event whose data is null; the stable sort by
\* descending timestamp puts first the earliest-stored event among those
\* with the greatest timestamp
FetchFromSharedMemory(store) ==
    LET isTemp(i) == TopicIncludesTemp(store[i].topic)
        throws == \E i \in 1..Len(store) :
                     isTemp(i) /\ TemperatureOf(store[i].data).kind = "throws"
        kept == {i \in 1..Len(store) :
                    isTemp(i) /\ TemperatureOf(store[i].data).kind = "value"}
        latest == CHOOSE i \in kept :
                     \A j \in kept : \/ store[j].timestamp < store[i].timestamp
                                      \/ (store[j].timestamp = store[i].timestamp /\ i <= j)
    IN IF throws THEN [kind |-> "throws", reading |-> NoReading]
       ELSE IF kept = {} THEN [kind |-> "null", reading |-> NoReading]
       ELSE [kind |-> "reading",
             reading |-> [temperature |-> TemperatureOf(store[latest].data).num,
                          timestamp |-> store[latest].timestamp,
                          source |-> "mqtt-shared-memory"]]

\* new Date().getHours(), with the process in UTC
HourOfDay(t) == (t \div MsPerHour) % 24

\* generateSimulatedReading(): the least and the greatest whole temperature
\* the random draw can give in the hour's band
SimulatedTemps(t) ==
    LET hour == HourOfDay(t)
    IN IF hour >= 6 /\ hour < 10 THEN {63, 77}
       ELSE IF hour >= 10 /\ hour < 16 THEN {73, 92}
       ELSE IF hour >= 16 /\ hour < 20 THEN {68, 82}
       ELSE {58, 72}

\* mutant: the limiter's window is 4 seconds
RateLimitedFourSeconds(t, last) == t - last < 4000

\* "now - lastCallTime < RATE_LIMIT_INTERVAL"
RateLimited(t, last) == t - last < RATE_LIMIT_INTERVAL

\* mutant: the range checks come before the staleness check
ClassifyRangeFirst(reading, minSafe, maxSafe, t) ==
    IF reading.temperature < minSafe THEN [status |-> "LOW", message |-> "below"]
    ELSE IF reading.temperature > maxSafe THEN [status |-> "HIGH", message |-> "above"]
    ELSE IF t - reading.timestamp > STALE_DATA_THRESHOLD
    THEN [status |-> "STALE", message |-> "old"]
    ELSE [status |-> "OK", message |-> "optimal"]

\* mutant: a reading on a bound is outside the safe range
ClassifyExclusiveBounds(reading, minSafe, maxSafe, t) ==
    IF t - reading.timestamp > STALE_DATA_THRESHOLD
    THEN [status |-> "STALE", message |-> "old"]
    ELSE IF reading.temperature <= minSafe THEN [status |-> "LOW", message |-> "below"]
    ELSE IF reading.temperature >= maxSafe THEN [status |-> "HIGH", message |-> "above"]
    ELSE [status |-> "OK", message |-> "optimal"]

\* status and message of execute, from the staleness check on; t is the
\* "now" taken at the start of the call
Classify(reading, minSafe, maxSafe, t) ==
    IF t - reading.timestamp > STALE_DATA_THRESHOLD
    THEN [status |-> "STALE", message |-> "old"]
    ELSE IF reading.temperature < minSafe THEN [status |-> "LOW", message |-> "below"]
    ELSE IF reading.temperature > maxSafe THEN [status |-> "HIGH", message |-> "above"]
    ELSE LET twiceDeviation == 2 * reading.temperature - (minSafe + maxSafe)
         IN [status |-> "OK",
             message |-> IF twiceDeviation < 10 /\ twiceDeviation > -10 THEN "optimal"
                         ELSE IF twiceDeviation < 0 THEN "cool"
                         ELSE "warm"]

\* mutant: only the default coop reads the store, any other coop's readings
\* are simulated
GetLatestTemperatureOwnCoop(coopId) ==
    IF coopId \in DOMAIN tempCache /\ now - tempCache[coopId].timestamp < CACHE_MS
    THEN {[kind |-> "reading", reading |-> tempCache[coopId], cache |-> tempCache,
           set |-> FALSE]}
    ELSE LET fetched == FetchFromSharedMemory(IF coopId = DEFAULT_COOP THEN sensorMemoryStore
                                                ELSE <<>>)
         IN IF fetched.kind = "throws"
            THEN {[kind |-> "throws", reading |-> NoReading, cache |-> tempCache,
                   set |-> FALSE]}
            ELSE IF fetched.kind = "reading"
            THEN {[kind |-> "reading", reading |-> fetched.reading,
                   cache |-> MapSet(tempCache, coopId, fetched.reading), set |-> TRUE]}
            ELSE {[kind |-> "reading", reading |-> r, cache |-> MapSet(tempCache, coopId, r),
                   set |-> TRUE] :
                     r \in {[temperature |-> c, timestamp |-> now, source |-> "simulated"] :
                               c \in SimulatedTemps(now)}}

\* getLatestTemperature(coopId): the readings it may return, each with the
\* cache it leaves
GetLatestTemperature(coopId) ==
    IF coopId \in DOMAIN tempCache /\ now - tempCache[coopId].timestamp < CACHE_MS
    THEN {[kind |-> "reading", reading |-> tempCache[coopId], cache |-> tempCache,
           set |-> FALSE]}
    ELSE LET fetched == FetchFromSharedMemory(sensorMemoryStore)
         IN IF fetched.kind = "throws"
            THEN {[kind |-> "throws", reading |-> NoReading, cache |-> tempCache,
                   set |-> FALSE]}
            ELSE IF fetched.kind = "reading"
            THEN {[kind |-> "reading", reading |-> fetched.reading,
                   cache |-> MapSet(tempCache, coopId, fetched.reading), set |-> TRUE]}
            ELSE {[kind |-> "reading", reading |-> r, cache |-> MapSet(tempCache, coopId, r),
                   set |-> TRUE] :
                     r \in {[temperature |-> c, timestamp |-> now, source |-> "simulated"] :
                               c \in SimulatedTemps(now)}}

TempFrame == UNCHANGED <<now, storeVars, feedVars, matchVars, mqttVars, pubVars, ticks>>

\* mutant: a rejected call records its time too, "lastCallTime = now" before the throw
CheckSafetyExtending(coopId, minSafe, maxSafe) ==
    LET call == [coopId |-> coopId, minSafe |-> minSafe, maxSafe |-> maxSafe]
    IN IF RateLimited(now, lastCallTime)
       THEN /\ tempResult' = [NoTempResult EXCEPT !.kind = "RateLimited", !.call = call]
            /\ lastCallTime' = now
            /\ UNCHANGED <<tempCache, accepted, cachedAt>>
            /\ TempFrame
       ELSE /\ lastCallTime' = now
            /\ accepted' = [any |-> TRUE, at |-> now, coopId |-> coopId]
            /\ \E got \in GetLatestTemperature(coopId) :
                  /\ tempCache' = got.cache
                  /\ cachedAt' = IF got.set THEN MapSet(cachedAt, coopId, now) ELSE cachedAt
                  /\ IF got.kind = "throws"
                     THEN tempResult' = [NoTempResult EXCEPT !.kind = "TypeError", !.call = call]
                     ELSE LET class == Classify(got.reading, minSafe, maxSafe, now)
                          IN tempResult' =
                                [kind |-> "result", status |-> class.status,
                                 message |-> class.message,
                                 current |-> got.reading.temperature,
                                 timestamp |-> got.reading.timestamp,
                                 source |-> got.reading.source, call |-> call]
            /\ TempFrame

\* coopTempAlertTool.execute
CheckSafety(coopId, minSafe, maxSafe) ==
    LET call == [coopId |-> coopId, minSafe |-> minSafe, maxSafe |-> maxSafe]
    IN IF RateLimited(now, lastCallTime)
       THEN /\ tempResult' = [NoTempResult EXCEPT !.kind = "RateLimited", !.call = call]
            /\ UNCHANGED <<lastCallTime, tempCache, accepted, cachedAt>>
            /\ TempFrame
       ELSE /\ lastCallTime' = now
            /\ accepted' = [any |-> TRUE, at |-> now, coopId |-> coopId]
            /\ \E got \in GetLatestTemperature(coopId) :
                  /\ tempCache' = got.cache
                  /\ cachedAt' = IF got.set THEN MapSet(cachedAt, coopId, now) ELSE cachedAt
                  /\ IF got.kind = "throws"
                     THEN tempResult' = [NoTempResult EXCEPT !.kind = "TypeError", !.call = call]
                     ELSE LET class == Classify(got.reading, minSafe, maxSafe, now)
                          IN tempResult' =
                                [kind |-> "result", status |-> class.status,
                                 message |-> class.message,
                                 current |-> got.reading.temperature,
                                 timestamp |-> got.reading.timestamp,
                                 source |-> got.reading.source, call |-> call]
            /\ TempFrame

\* the evaluator's clock advances
TempTick(d) ==
    /\ ticks < MaxTempTicks
    /\ ticks' = ticks + 1
    /\ now' = now + d
    /\ tempResult' = NoTempResult
    /\ UNCHANGED <<lastCallTime, tempCache, accepted, cachedAt>>
    /\ UNCHANGED <<storeVars, feedVars, matchVars, mqttVars, pubVars>>

\* inputs of the evaluator specification
TempTicks == {1, 4999, 120000}

SafeRanges == {[minSafe |-> 35, maxSafe |-> 95], [minSafe |-> 75, maxSafe |-> 80]}

CheckSafetyStep == \E c \in Coops, r \in SafeRanges : CheckSafety(c, r.minSafe, r.maxSafe)

TempTickStep == \E d \in TempTicks : TempTick(d)

\* addSensorData(topic, data, analysis) while the evaluator is in use, for
\* the first "limit" events of a run
SensorEventUpTo(limit, topic, data, analysis) ==
    /\ appended < limit
    /\ sensorMemoryStore' = PushEvict(sensorMemoryStore, NewEvent(topic, data, analysis))
    /\ appended' = appended + 1
    /\ storeResult' = NoStoreResult
    /\ tempResult' = NoTempResult
    /\ UNCHANGED <<lastCallTime, tempCache, accepted, cachedAt, ticks>>
    /\ UNCHANGED <<now, feedVars, matchVars, mqttVars, pubVars>>

SensorEvent(topic, data, analysis) ==
    SensorEventUpTo(MaxTempEvents, topic, data, analysis)

SensorEventStep ==
    \E t \in {"coop/temp", "coop/door"}, d \in {DataObject(70), DataObject(98)} :
        SensorEvent(t, d, "Received other message from coop")

\* the process starts at noon of 2 January 1970
TempStartMs == 36 * MsPerHour

InitTemp ==
    /\ now = TempStartMs
    /\ sensorMemoryStore = <<>>
    /\ appended = 0
    /\ storeResult = NoStoreResult
    /\ feedingRecords = EmptyMap
    /\ scheduledReminders = EmptyMap
    /\ timers = {}
    /\ approvalCallback = FALSE
    /\ pending = {}
    /\ outcome = NoOutcome
    /\ probe = NoProbe
    /\ InitMqtt
    /\ InitTempVars
    /\ InitPub

\* inputs of the cache specification: payloads as the dispatcher hands them
\* to addSensorData, and clock steps around the cache's 30 seconds
CachePayloads == {DataObject(70), DataObject(98), DataObjectWithout, DataText, DataNull}

CacheTicks == {5000, 30000}

CacheEventStep ==
    \E t \in {"coop/temp", "coop/door"}, d \in CachePayloads :
        SensorEventUpTo(MaxCacheEvents, t, d, "Received other message from coop")

CacheTickStep == \E d \in CacheTicks : TempTick(d)

CacheCheckStep == CheckSafety(DEFAULT_COOP, 35, 95)

\* the evaluator of one coop over a store that changes between its calls
CacheNext ==
    \/ CacheCheckStep
    \/ CacheTickStep
    \/ CacheEventStep

SpecCache == InitTemp /\ [][CacheNext]_vars

CoopsCheckStep == \E c \in Coops : CheckSafety(c, 35, 95)

\* temperature events with an object or a null payload
CoopsEventStep ==
    \E d \in {DataObject(70), DataObject(98), DataNull} :
        SensorEventUpTo(MaxCacheEvents, "coop/temp", d, "Received other message from coop")

\* the evaluator of two coops over one store
CoopsNext ==
    \/ CoopsCheckStep
    \/ CacheTickStep
    \/ CoopsEventStep

SpecCoops == InitTemp /\ [][CoopsNext]_vars

\* safe ranges whose bounds lie below, on and above the readings
WideRanges ==
    {[minSafe |-> lo, maxSafe |-> hi] : lo \in {35, 70, 75}, hi \in {80, 95, 98}}

CheckSafetyRangeStep ==
    \E r \in WideRanges : CheckSafety(DEFAULT_COOP, r.minSafe, r.maxSafe)

\* the evaluator of one coop under many safe ranges
RangeNext ==
    \/ CheckSafetyRangeStep
    \/ TempTickStep
    \/ SensorEventStep

SpecRange == InitTemp /\ [][RangeNext]_vars

TempNext ==
    \/ CheckSafetyStep
    \/ TempTickStep
    \/ SensorEventStep

SpecTemp == InitTemp /\ [][TempNext]_vars

----------------------------------------------------------------------------
(* Specification of the topic matching function *)

\* the arguments of the call: any topic of literal segments, any pattern
InitMatch ==
    /\ now = 0
    /\ sensorMemoryStore = <<>>
    /\ appended = 0
    /\ storeResult = NoStoreResult
    /\ feedingRecords = EmptyMap
    /\ scheduledReminders = EmptyMap
    /\ timers = {}
    /\ approvalCallback = FALSE
    /\ pending = {}
    /\ outcome = NoOutcome
    /\ \E t \in SegSeqs(LiteralSegs, MaxSegs), p \in SegSeqs(PatternSegs, MaxSegs) :
           probe = [topic |-> t, pattern |-> p, done |-> FALSE, result |-> FALSE]
    /\ InitMqtt
    /\ InitTempVars
    /\ InitPub

MatchNext == MatchStep

SpecMatch == InitMatch /\ [][MatchNext]_vars

----------------------------------------------------------------------------
(* Initial state: the module-level initialisers *)

Init ==
    /\ now = 0
    /\ sensorMemoryStore = <<>>
    /\ appended = 0
    /\ storeResult = NoStoreResult
    /\ feedingRecords = EmptyMap
    /\ scheduledReminders = EmptyMap
    /\ timers = {}
    /\ approvalCallback = FALSE
    /\ pending = {}
    /\ outcome = NoOutcome
    /\ probe = NoProbe
    /\ InitMqtt
    /\ InitTempVars
    /\ InitPub

\* the registry with every transport answer, no messages
RegistryNext ==
    \/ Connect
    \/ ConnectionLost
    \/ SubscribeStep
    \/ SubAckStep
    \/ UnsubscribeStep
    \/ UnsubAckStep
    \/ ListSubscriptions
    \/ PauseStep
    \/ ResumeStep

SpecRegistry == Init /\ [][RegistryNext]_vars

\* subscribe calls for any topic list on a client the memory bridge may use
SubscribeNext ==
    \/ Connect
    \/ SubscribeAnyStep
    \/ SubAckStep
    \/ BridgeEnable
    \/ BridgeDisable

SpecSubscribe == Init /\ [][SubscribeNext]_vars

\* the transport answers every subscribe request it got
FairSubscribe == SpecSubscribe /\ WF_vars(SubAckStep)

\* the dispatcher over a registry built by single-pattern subscribe calls
DispatchNext ==
    \/ Connect
    \/ SubscribeOneStep
    \/ SubAckOkStep
    \/ PauseStep
    \/ ResumeStep
    \/ HandleMessageStep

SpecDispatch == Init /\ [][DispatchNext]_vars

StoreNext == StoreToolStep \/ AddSensorDataStep \/ ListAll

SpecStore == Init /\ [][StoreNext]_vars

\* every tool that hands requests to the transport, over a connection that
\* comes and goes
TransportNext ==
    \/ Connect
    \/ ConnectionLost
    \/ PublishToolStep
    \/ CommandToolStep
    \/ QueueTick
    \/ PublishAckStep
    \/ SubscribeTempStep
    \/ SubAckOkStep
    \/ UnsubscribeTempStep
    \/ UnsubAckOkStep
    \/ PauseTempStep

SpecTransport == Init /\ [][TransportNext]_vars

\* the publish queue over a connection that comes and goes
QueueNext ==
    \/ Connect
    \/ ConnectionLost
    \/ PublishOneStep
    \/ QueueTick
    \/ PublishAckStep
    \/ ElapseStep

SpecQueue == Init /\ [][QueueNext]_vars

ToolNext ==
    \/ ToolStoreStep
    \/ ToolQueryStep
    \/ ListAll

SpecTool == Init /\ [][ToolNext]_vars

FeedNext ==
    \/ ReportStep
    \/ ApprovalReturnStep
    \/ FireTimerStep
    \/ SetApprovalCallback
    \/ Tick

SpecFeed == Init /\ [][FeedNext]_vars

\* the reminder timer's delay for feeding instants near and far
DelayNext ==
    \/ ScheduleReminderCallStep
    \/ Tick

SpecDelay == Init /\ [][DelayNext]_vars

\* the status of a report around the instants where it changes
StatusNext ==
    \/ StatusReportStep
    \/ Tick

SpecStatus == Init /\ [][StatusNext]_vars

ValidateNext ==
    \/ AnyReportStep
    \/ ApprovalReturnStep
    \/ FireTimerStep
    \/ SetApprovalCallback
    \/ Tick

SpecValidate == Init /\ [][ValidateNext]_vars

----------------------------------------------------------------------------
(* Properties of the shared event store, checked under SpecStore *)

\* C1: in every reachable state the store holds at most 100 events, and no
\* reader (the count a store or list_all call reports) ever sees more:
\* the append and the eviction of one call are one step.
C1_StoreAtMost100 ==
    /\ Len(sensorMemoryStore) <= 100
    /\ storeResult.success => storeResult.count <= 100

\* a reader sees a full store after an eviction has happened
C1_Witness ==
    /\ storeResult.called = "list_all"
    /\ storeResult.count = 100
    /\ appended = 102

\* C2: eviction is oldest-first and order-preserving.  An append to a store of
\* 100 events drops exactly the first event and keeps the other 99 in order,
\* followed by the new event; an append to a shorter store drops nothing.
\* Hence after 101 appends the store holds the 2nd to the 101st, in order.
C2_EvictOldestFirst ==
    /\ [][appended' # appended =>
            LET new == sensorMemoryStore'[Len(sensorMemoryStore')]
            IN /\ new.id = appended + 1
               /\ Len(sensorMemoryStore) = 100 =>
                      sensorMemoryStore' = Append(Tail(sensorMemoryStore), new)
               /\ Len(sensorMemoryStore) < 100 =>
                      sensorMemoryStore' = Append(sensorMemoryStore, new)]_vars
    /\ [](appended = 101 =>
            /\ Len(sensorMemoryStore) = 100
            /\ \A i \in 1..100 : sensorMemoryStore[i].id = i + 1)

\* 101 events were appended: the first one is gone
C2_Witness ==
    /\ appended = 101
    /\ Len(sensorMemoryStore) = 100
    /\ sensorMemoryStore[1].id = 2
    /\ sensorMemoryStore[100].id = 101

----------------------------------------------------------------------------
(* Properties of the feed scheduler, checked under SpecFeed and SpecValidate *)

\* a report completed (returned or threw) in the step that led to this state
Completed(o) == o.kind \in {"result", "error"}

\* the report that completes in this step never waited for the approval
\* callback: no suspended report resumes in this step
Direct == pending' = pending

TimersUnchanged == timers' = timers /\ scheduledReminders' = scheduledReminders

\* C3: a report with intervalHours < 6, scheduleReminder = true and feeding
\* not yet due consults the approval gate before any timer is armed: the
\* step in which it calls the gate touches no timer, it arms a timer only if
\* the gate approved, and on denial reminderScheduled is false, the timers
\* are as before and the message carries the denial notice.
C3_GateBeforeArming ==
    [][LET o == outcome'
       IN /\ (pending' \ pending # {}) => TimersUnchanged
          /\ (o.kind = "result" /\ o.call.intervalHours < 6
              /\ o.call.scheduleReminder /\ ~o.due)
                 => o.gate \in {"approved", "denied"}
          /\ (Completed(o) /\ o.call.intervalHours < 6 /\ ~TimersUnchanged)
                 => o.gate = "approved"
          /\ (Completed(o) /\ o.call.intervalHours < 6 /\ o.reminderScheduled)
                 => o.gate = "approved"
          /\ o.gate = "denied"
                 => (~o.reminderScheduled /\ TimersUnchanged /\ o.note = "denied")]_vars

\* the gate denied a report for a coop whose earlier reminder is still armed
C3_Witness ==
    /\ outcome.gate = "denied"
    /\ outcome.call.intervalHours < 6
    /\ ~outcome.reminderScheduled
    /\ \E t \in timers : t.coopId = outcome.call.coopId

\* C4: whenever a report arms a reminder timer for a coop, that coop's stored
\* record has intervalHours >= 6 or the gate approved during that report.
C4_ArmedImpliesApprovedOrLong ==
    [][(outcome'.kind = "result" /\ outcome'.reminderScheduled)
          => \/ feedingRecords'[outcome'.call.coopId].intervalHours >= 6
             \/ outcome'.gate = "approved"]_vars

\* C5: at most one reminder timer that can still fire exists per coop, and it
\* is the one the reminder map holds for that coop: a timer that was replaced
\* is no longer pending, so it never fires.
C5_AtMostOneTimerPerCoop ==
    /\ \A c \in Coops : Cardinality({t \in timers : t.coopId = c}) <= 1
    /\ \A t \in timers : /\ t.coopId \in DOMAIN scheduledReminders
                         /\ scheduledReminders[t.coopId] = t.id

\* a report that resumed after approval replaced the coop's pending timer
C5_Witness ==
    /\ outcome.gate = "approved"
    /\ outcome.reminderScheduled
    /\ DOMAIN scheduledReminders = {outcome.call.coopId}
    /\ \E t \in timers : t.coopId = outcome.call.coopId /\ t.id = 2

\* C6: whenever a reminder timer is armed for a coop, its firing instant
\* equals the nextFeedAt of that coop's current feeding record.
C6_TimerFiresAtNextFeedAt ==
    \A t \in timers :
        /\ t.coopId \in DOMAIN feedingRecords
        /\ t.fireAt = feedingRecords[t.coopId].nextFeedAt

\* C7: every feeding record satisfies nextFeedAt = lastFedAt + intervalHours
\* (in hours) and 1 <= intervalHours <= 48, and the coop's entry is the
\* coop's own record (one record per coopId).
C7_RecordInvariant ==
    \A c \in DOMAIN feedingRecords :
        LET r == feedingRecords[c]
        IN /\ r.coopId = c
           /\ c \in Coops
           /\ r.intervalHours >= 1
           /\ r.intervalHours <= 48
           /\ r.nextFeedAt = r.lastFedAt + r.intervalHours * 3600000

\* a report was rejected while a record exists
C7_Witness ==
    /\ outcome.kind = "error"
    /\ outcome.error = "InvalidInterval"
    /\ outcome.call.lastFedAt.kind = "iso"
    /\ DEFAULT_COOP \in DOMAIN feedingRecords

\* C8 as stated: a report that omits lastFedAt returns the lastFedAt and
\* nextFeedAt of the coop's stored record and leaves the record unchanged; if
\* the coop has no record it fails with NoFeedingHistory and creates none.
C8_OmittedReusesRecord ==
    [][LET o == outcome'
           c == o.call.coopId
       IN (Completed(o) /\ o.call.lastFedAt.kind = "undefined") =>
            /\ feedingRecords' = feedingRecords
            /\ IF c \in DOMAIN feedingRecords
               THEN /\ o.kind = "result"
                    /\ o.lastFedAt = feedingRecords[c].lastFedAt
                    /\ o.nextAt = feedingRecords[c].nextFeedAt
               ELSE o.kind = "error" /\ o.error = "NoFeedingHistory"]_vars

\* C8 amended: a report that omits lastFedAt never changes a record; with
\* intervalHours in [1,48] it fails with NoFeedingHistory when the coop has
\* no record, and otherwise every result it returns carries the lastFedAt and
\* nextFeedAt of the record that was stored when the report was made (it
\* returns no result only when the approval gate is missing or fails); with
\* intervalHours outside [1,48] it fails with InvalidInterval.
C8_OmittedReusesRecordIfValid ==
    [][LET o == outcome'
           c == o.call.coopId
           valid == o.call.intervalHours >= 1 /\ o.call.intervalHours <= 48
       IN /\ (Completed(o) /\ o.call.lastFedAt.kind = "undefined") =>
               /\ feedingRecords' = feedingRecords
               /\ ~valid => (o.kind = "error" /\ o.error = "InvalidInterval")
               /\ (valid /\ Direct /\ c \notin DOMAIN feedingRecords)
                     => (o.kind = "error" /\ o.error = "NoFeedingHistory")
               /\ (valid /\ Direct /\ c \in DOMAIN feedingRecords) =>
                     \/ /\ o.kind = "result"
                        /\ o.lastFedAt = feedingRecords[c].lastFedAt
                        /\ o.nextAt = feedingRecords[c].nextFeedAt
                     \/ o.kind = "error" /\ o.error = "ApprovalRequired"
               /\ (valid /\ ~Direct) =>
                     \/ \E p \in pending \ pending' :
                           /\ p.call = o.call
                           /\ o.kind = "result"
                           /\ o.lastFedAt = p.record.lastFedAt
                           /\ o.nextAt = p.record.nextFeedAt
                     \/ o.kind = "error" /\ o.error = "GateError"
          /\ \A p \in pending' \ pending :
               p.call.lastFedAt.kind = "undefined" =>
                  /\ feedingRecords' = feedingRecords
                  /\ p.call.coopId \in DOMAIN feedingRecords
                  /\ p.record = feedingRecords[p.call.coopId]]_vars

\* a report without lastFedAt returned the stored record
C8_Witness ==
    /\ outcome.kind = "result"
    /\ outcome.call.lastFedAt.kind = "undefined"
    /\ outcome.call.coopId \in DOMAIN feedingRecords
    /\ outcome.nextAt = feedingRecords[outcome.call.coopId].nextFeedAt

\* the three validation failures
ValidationError(o) ==
    o.kind = "error"
    /\ o.error \in {"InvalidTimestamp", "InvalidInterval", "NoFeedingHistory"}

FailureChangesNothing ==
    LET o == outcome'
    IN ValidationError(o) =>
          /\ feedingRecords' = feedingRecords
          /\ TimersUnchanged
          /\ pending' = pending
          /\ o.gate = "none"

\* C9 as stated: a report whose supplied lastFedAt is unparsable fails with
\* InvalidTimestamp, a report whose intervalHours is outside [1,48] fails with
\* InvalidInterval, and a report failing with InvalidTimestamp, InvalidInterval
\* or NoFeedingHistory changes no record and no timer and consults no gate.
C9_ValidationFailures ==
    [][LET o == outcome'
       IN /\ (Completed(o) /\ o.call.lastFedAt.kind \in {"empty", "garbage"})
                => (o.kind = "error" /\ o.error = "InvalidTimestamp")
          /\ (Completed(o) /\ (o.call.intervalHours < 1 \/ o.call.intervalHours > 48))
                => (o.kind = "error" /\ o.error = "InvalidInterval")
          /\ FailureChangesNothing]_vars

\* C9 amended: the interval is validated first and an empty string counts as
\* omitted.  A report whose intervalHours is outside [1,48] fails with
\* InvalidInterval whatever its lastFedAt; a report with intervalHours in
\* [1,48] whose lastFedAt is a non-empty unparsable string fails with
\* InvalidTimestamp; failing reports change nothing and consult no gate.
C9_ValidationFailuresInOrder ==
    [][LET o == outcome'
           valid == o.call.intervalHours >= 1 /\ o.call.intervalHours <= 48
       IN /\ (Completed(o) /\ valid /\ o.call.lastFedAt.kind = "garbage")
                => (o.kind = "error" /\ o.error = "InvalidTimestamp")
          /\ (Completed(o) /\ ~valid)
                => (o.kind = "error" /\ o.error = "InvalidInterval")
          /\ (Completed(o) /\ valid /\ Direct /\ o.call.lastFedAt.kind = "empty")
                => IF o.call.coopId \in DOMAIN feedingRecords
                   THEN o.error \notin {"InvalidTimestamp", "NoFeedingHistory"}
                   ELSE o.kind = "error" /\ o.error = "NoFeedingHistory"
          /\ FailureChangesNothing]_vars

\* an unparsable lastFedAt was rejected while a record and a timer exist
C9_Witness ==
    /\ outcome.kind = "error"
    /\ outcome.error = "InvalidTimestamp"
    /\ outcome.call.coopId \in DOMAIN feedingRecords
    /\ \E t \in timers : t.coopId = outcome.call.coopId

\* C10: with no approval callback registered, a report that needs approval
\* (intervalHours < 6, scheduleReminder, not due) ends in an error that is
\* neither the approved nor the denied result, and it neither arms nor
\* cancels a timer.
C10_NoGateIsAFailure ==
    [][LET o == outcome'
           c == o.call.coopId
           fed == o.call.lastFedAt
           hasRecord == fed.kind = "iso" \/ c \in DOMAIN feedingRecords
           next == IF fed.kind = "iso"
                   THEN fed.ms + o.call.intervalHours * 3600000
                   ELSE feedingRecords[c].nextFeedAt
       IN (/\ Completed(o) /\ Direct /\ ~approvalCallback
           /\ o.call.intervalHours >= 1 /\ o.call.intervalHours < 6
           /\ o.call.scheduleReminder /\ hasRecord /\ now < next)
          => /\ o.kind = "error"
             /\ o.error = "ApprovalRequired"
             /\ o.gate = "unregistered"
             /\ ~o.reminderScheduled
             /\ o.note \notin {"denied", "scheduled"}
             /\ TimersUnchanged]_vars

\* the report failed for want of a gate while the coop's reminder is armed
C10_Witness ==
    /\ outcome.kind = "error"
    /\ outcome.error = "ApprovalRequired"
    /\ ~approvalCallback
    /\ \E t \in timers : t.coopId = outcome.call.coopId

----------------------------------------------------------------------------
(* Properties of topic matching, checked under SpecMatch *)

IsLiteral(p) == \A i \in 1..Len(p) : p[i] \in LiteralSegs

\* p is t with segment k replaced by s
ReplacedAt(t, p, k, s) ==
    /\ Len(p) = Len(t)
    /\ \A i \in 1..Len(t) : p[i] = (IF i = k THEN s ELSE t[i])

\* p is the first k segments of t followed by the segments of tail
PrefixThen(t, p, k, tail) == p = SubSeq(t, 1, k) \o tail

C12_PlusMatchesOneSegment ==
    LET t == probe.topic
        p == probe.pattern
    IN (probe.done /\ probe.result) =>
        \A i \in 1..Len(p) :
            (p[i] = "+" /\ \A j \in 1..(i - 1) : p[j] # "#") => i <= Len(t)

----------------------------------------------------------------------------
(* Properties of the dispatcher, checked under SpecDispatch *)

Range(q) == {q[i] : i \in 1..Len(q)}

\* the payload, as parsed, carries every field the filter expects
CarriesFields(filter, msg) ==
    \/ \A k \in FieldKeys : filter.fields[k] = Absent
    \/ /\ msg.kind = "json-object"
       /\ \A k \in FieldKeys :
              filter.fields[k] # Absent => msg.fields[k] = filter.fields[k]

FilterAccepts(sub, msg) == ~sub.filter.defined \/ CarriesFields(sub.filter, msg)

\* the subscriptions that should store the message of a handled delivery
Accepting(subs, d) ==
    {i \in 1..Len(subs) : /\ topicMatches(d.topic, subs[i].topic)
                          /\ ~subs[i].paused
                          /\ FilterAccepts(subs[i], d.msg)}

\* C13: the number of events a handled message appends to the store is the
\* number of subscriptions that match its topic, are not paused and whose
\* filter accepts its payload.
C13_OneEventPerAcceptingSubscription ==
    [][delivery'.handled =>
          appended' - appended = Cardinality(Accepting(subscriptions, delivery'))]_vars

AckedBy(call, p) ==
    \E i \in call.waiting :
        /\ call.topics[i] = p
        /\ LET answered == [call EXCEPT !.waiting = call.waiting \ {i},
                                        !.subscribed = Append(call.subscribed, p)]
           IN IF call.waiting = {i}
              THEN /\ subCalls' = Resolved(call)
                   /\ mqttResult'.action = "subscribe"
                   /\ mqttResult'.subscribed = answered.subscribed
              ELSE subCalls' = Progressed(call, answered)

AckedFor(p) == \E call \in BagToSet(subCalls) : AckedBy(call, p)

Returned(action, p) ==
    mqttResult'.action = action /\ mqttResult'.success /\ mqttResult'.topic = p

IsPaused(subs, p) == p \in SubKeys(subs) /\ SubGet(subs, p).paused

C15_FilterHoldsForEveryPayload ==
    delivery.handled =>
        \A i \in 1..Len(subscriptions) :
            (subscriptions[i].filter.defined
               /\ subscriptions[i].topic \in Range(delivery.storedBy))
              => CarriesFields(subscriptions[i].filter, delivery.msg)

\* C16: every subscription that matches a handled message, is not paused
\* and whose filter the payload satisfies stores the message, whatever the
\* other subscriptions do with it (skip it as paused, filter it out, fail).
C16_SubscriptionsIndependent ==
    delivery.handled =>
        /\ \A i \in Accepting(subscriptions, delivery) :
               subscriptions[i].topic \in Range(delivery.storedBy)
        /\ \A i \in 1..Len(subscriptions) :
               subscriptions[i].topic \in Range(delivery.erred)
                  => subscriptions[i].topic \notin Range(delivery.storedBy)

\* the first matching subscription failed on the message and the second
\* stored it
C16_Witness ==
    /\ delivery.handled
    /\ Len(subscriptions) = 2
    /\ delivery.erred = <<subscriptions[1].topic>>
    /\ delivery.storedBy = <<subscriptions[2].topic>>

----------------------------------------------------------------------------
(* Properties of the subscription registry, checked under SpecRegistry *)

\* C17: an acknowledged subscribe to a pattern that is in the registry
\* replaces the entry's qos and filter with those of the call and leaves
\* the number of entries unchanged; the registry never holds two entries
\* for one pattern.
C17_ResubscribeReplaces ==
    [][/\ \A p \in MqttPatterns :
            \A call \in BagToSet(subCalls) :
                (AckedBy(call, p) /\ p \in SubKeys(subscriptions)) =>
                    /\ Len(subscriptions') = Len(subscriptions)
                    /\ SubKeys(subscriptions') = SubKeys(subscriptions)
                    /\ SubGet(subscriptions', p).qos = call.qos
                    /\ SubGet(subscriptions', p).filter = call.filter
       /\ \A i, j \in 1..Len(subscriptions') :
            subscriptions'[i].topic = subscriptions'[j].topic => i = j
      ]_vars

\* a subscribe to a pattern that was registered and paused has returned
C17_Witness ==
    /\ mqttResult.action = "subscribe"
    /\ \E p \in pausedSince :
           /\ p \in Range(mqttResult.subscribed)
           /\ mqttResult.size = 1
           /\ subscriptions = <<[topic |-> p, qos |-> 1, filter |-> Filter(TempZoneA),
                                 paused |-> FALSE]>>

\* C18: when the transport has answered an unsubscribe for a pattern that
\* is not in the registry, the call fails with "Subscription not found" and
\* the registry is unchanged; when it acknowledges an unsubscribe for a
\* registered pattern, exactly that entry is removed.
C18_UnsubscribeUnknownNotFound ==
    [][\A p \in unsubCalls :
          (mqttResult'.action = "unsubscribe" /\ mqttResult'.topic = p) =>
              IF p \notin SubKeys(subscriptions)
              THEN /\ ~mqttResult'.success
                   /\ mqttResult'.status = "Subscription not found"
                   /\ subscriptions' = subscriptions
              ELSE mqttResult'.success =>
                       subscriptions' = SelectSeq(subscriptions, LAMBDA e : e.topic # p)
      ]_vars

----------------------------------------------------------------------------
(* Properties of the temperature evaluator, checked under SpecTemp *)

\* C19: a call made less than 5000 ms after the last call that was not
\* rate-limited fails with RateLimited, whatever the coops of the two
\* calls; any other call is not rate-limited.
C19_RateLimitProcessWide ==
    [][tempResult'.kind # "none" =>
          IF accepted.any /\ now - accepted.at < 5000
          THEN tempResult'.kind = "RateLimited"
          ELSE tempResult'.kind # "RateLimited"]_vars

\* a call for one coop is rate-limited by a call for the other coop made
\* 4999 ms earlier
C19_Witness ==
    /\ tempResult.kind = "RateLimited"
    /\ accepted.any
    /\ accepted.coopId # tempResult.call.coopId
    /\ now - accepted.at = 4999

\* C20: a call that returns a result reports STALE exactly when the reading
\* it used is more than 120000 ms older than the call's now, whatever the
\* temperature and the bounds.
C20_StaleBeforeRange ==
    tempResult.kind = "result" =>
        (tempResult.status = "STALE" <=> now - tempResult.timestamp > 120000)

\* a reading above the safe maximum and more than two minutes old is
\* reported STALE
C20_Witness ==
    /\ tempResult.kind = "result"
    /\ tempResult.status = "STALE"
    /\ tempResult.current > tempResult.call.maxSafe
    /\ now - tempResult.timestamp = 120001

----------------------------------------------------------------------------
(* Properties of the classification, checked under SpecRange *)

\* C21: a result computed from a reading that is at most 120000 ms old,
\* under bounds minSafe <= maxSafe, is LOW exactly when the reading is below
\* minSafe, HIGH exactly when it is above maxSafe and OK exactly when it
\* lies in [minSafe, maxSafe], both bounds included.
C21_InclusiveBounds ==
    LET t == tempResult.current
        lo == tempResult.call.minSafe
        hi == tempResult.call.maxSafe
    IN (/\ tempResult.kind = "result"
        /\ now - tempResult.timestamp <= 120000
        /\ lo <= hi) =>
           /\ tempResult.status = "LOW" <=> t < lo
           /\ tempResult.status = "HIGH" <=> t > hi
           /\ tempResult.status = "OK" <=> (lo <= t /\ t <= hi)

\* a fresh reading equal to maxSafe is reported OK
C21_Witness ==
    /\ tempResult.kind = "result"
    /\ now - tempResult.timestamp <= 120000
    /\ tempResult.current = tempResult.call.maxSafe
    /\ tempResult.call.minSafe < tempResult.call.maxSafe
    /\ tempResult.status = "OK"

----------------------------------------------------------------------------
(* Properties of the reading cache, checked under SpecCache *)

ResultReading(r) ==
    [temperature |-> r.current, timestamp |-> r.timestamp, source |-> r.source]

\* the coop's cache entry was set less than 30 seconds ago
CacheFresh(c) == c \in DOMAIN cachedAt /\ now - cachedAt[c] < 30000

\* C22: a call that is not rate-limited returns the coop's cached reading,
\* and leaves the cache alone, exactly when the coop's cache entry was set
\* less than 30 seconds earlier; otherwise it sets the entry anew to the
\* reading it returns.
C22_CacheValidFromCreation ==
    [][tempResult'.kind = "result" =>
          LET c == tempResult'.call.coopId
          IN IF CacheFresh(c)
             THEN /\ ResultReading(tempResult') = tempCache[c]
                  /\ tempCache' = tempCache
                  /\ cachedAt' = cachedAt
             ELSE /\ c \in DOMAIN cachedAt' /\ cachedAt'[c] = now
                  /\ tempCache'[c] = ResultReading(tempResult')]_vars

\* the call made in this step was let through by the limiter
CallAccepted == tempResult'.kind \in {"result", "TypeError"}

\* the cache test of getLatestTemperature fails for the coop
CacheMiss(c) ==
    ~(c \in DOMAIN tempCache /\ now - tempCache[c].timestamp < 30000)

\* store events on a topic containing "temp" whose payload is an object
\* with a temperature field
Qualifying ==
    {i \in 1..Len(sensorMemoryStore) :
        /\ sensorMemoryStore[i].topic \in {"coop/temp", "barn/temp"}
        /\ sensorMemoryStore[i].data.kind = "object"}

\* C23: a call that misses the cache returns, and writes to the coop's
\* cache entry, the reading of a qualifying store event of greatest
\* timestamp; when no event qualifies it returns and caches a reading whose
\* source is "simulated" and whose timestamp is the time of the call.
C23_MissUsesLatestEvent ==
    [][(CallAccepted /\ CacheMiss(tempResult'.call.coopId)) =>
          LET c == tempResult'.call.coopId
              got == ResultReading(tempResult')
          IN /\ tempResult'.kind = "result"
             /\ c \in DOMAIN tempCache' /\ tempCache'[c] = got
             /\ IF Qualifying # {}
                THEN \E i \in Qualifying :
                        /\ \A j \in Qualifying : sensorMemoryStore[j].timestamp
                                                      <= sensorMemoryStore[i].timestamp
                        /\ got = [temperature |-> sensorMemoryStore[i].data.num,
                                  timestamp |-> sensorMemoryStore[i].timestamp,
                                  source |-> "mqtt-shared-memory"]
                ELSE got.source = "simulated" /\ got.timestamp = now]_vars

\* C24: whatever the store holds, a call returns a result whose status is
\* OK, LOW, HIGH or STALE, or fails with RateLimited.
C24_OnlyRateLimitedFails ==
    \/ tempResult.kind \in {"none", "RateLimited"}
    \/ tempResult.kind = "result" /\ tempResult.status \in {"OK", "LOW", "HIGH", "STALE"}

----------------------------------------------------------------------------
(* Properties of the store tool, checked under SpecTool *)

\* C25: a store call with a topic and a payload, falsy or not, succeeds and
\* appends one event; a query with a search string, empty or not, succeeds,
\* and its result is a sequence, empty when nothing matches.
C25_StoreToolNeverFails ==
    [][/\ storeResult'.called = "store" =>
            /\ storeResult'.success
            /\ Len(sensorMemoryStore') = Len(sensorMemoryStore) + 1
       /\ storeResult'.called # "query throws TypeError"
       /\ storeResult'.called = "query" =>
            /\ storeResult'.success
            /\ storeResult'.count = Len(storeResult'.results)]_vars

----------------------------------------------------------------------------
(* Properties of the transport's use, checked under SpecTransport *)

\* a step that hands a subscribe, unsubscribe or publish request to the
\* transport
IssuesRequest ==
    \/ Len(publishing') > Len(publishing)
    \/ pubResult'.issued > 0
    \/ BagCardinality(subCalls') > BagCardinality(subCalls)
    \/ unsubCalls' \ unsubCalls # {}

\* a step in which the transport answers a request made earlier
AnswersRequest ==
    \/ subCalls' # subCalls /\ BagCardinality(subCalls') <= BagCardinality(subCalls)
    \/ unsubCalls \ unsubCalls' # {}
    \/ Len(publishing') < Len(publishing)

\* C26: a step that hands a subscribe, unsubscribe or publish request to
\* the transport starts with the connected flag true; while the flag is
\* false a tick of the queue processor takes nothing from the queue, and the
\* registry changes only in the callback of a request made earlier.
C26_NoRequestWhileDisconnected ==
    [][/\ IssuesRequest => connected
       /\ (~connected /\ pubResult'.action = "tick") =>
             publishQueue' = publishQueue /\ publishing' = publishing
       /\ (~connected /\ subscriptions' # subscriptions) => AnswersRequest
       /\ (~connected /\ ~AnswersRequest /\ mqttResult'.action # "none") =>
             mqttResult'.status = "MQTT client not connected"]_vars

\* a tick of the queue processor found messages queued and the client
\* disconnected
C26_Witness ==
    /\ ~connected
    /\ pubResult.action = "tick"
    /\ publishQueue # <<>>
    /\ publishing = <<>>
    /\ subscriptions # <<>>

----------------------------------------------------------------------------
(* Properties of the publish queue, checked under SpecQueue *)

\* C28: the publish queue never holds a message while no queue processor
\* is running, so that no queued message is left waiting forever.
C28_QueueHasProcessor == publishQueue # <<>> => queueInterval

----------------------------------------------------------------------------
(* Properties of the dispatcher's writes, checked under SpecDispatch *)

----------------------------------------------------------------------------
(* Properties of the reminder timers, checked under SpecFeed *)

\* C29: a report that reaches scheduleReminder when nextFeedAt is not after
\* the current time reports reminderScheduled false and leaves the pending
\* timers and the reminder map as they were.
C29_LateArmingIsNoOp ==
    [][(/\ outcome'.kind = "result"
        /\ outcome'.note = "scheduled"
        /\ outcome'.nextAt <= now) =>
           /\ ~outcome'.reminderScheduled
           /\ timers' = timers
           /\ scheduledReminders' = scheduledReminders]_vars

\* C30: a step in which a reminder fires reports one reminder for a coop,
\* takes that coop's timer out of the pending timers and its entry out of
\* the reminder map, and changes nothing else: no timer is added, the
\* coop has no pending timer afterwards, and the feeding records, the other
\* coops' timers and entries and the suspended reports stay as they were.
C30_FiringClearsOnlyItself ==
    [][outcome'.kind = "reminder" =>
          LET c == outcome'.call.coopId
          IN /\ \E t \in timers : /\ t.coopId = c
                                   /\ now >= t.fireAt
                                   /\ timers' = timers \ {t}
             /\ \A t \in timers' : t.coopId # c
             /\ c \notin DOMAIN scheduledReminders'
             /\ \A d \in (DOMAIN scheduledReminders) \ {c} :
                   d \in DOMAIN scheduledReminders'
                      /\ scheduledReminders'[d] = scheduledReminders[d]
             /\ DOMAIN scheduledReminders' \subseteq DOMAIN scheduledReminders
             /\ feedingRecords' = feedingRecords
             /\ pending' = pending]_vars

\* a reminder fired for one coop while another coop's timer stays pending
C30_Witness ==
    /\ outcome.kind = "reminder"
    /\ outcome.call.coopId \in DOMAIN feedingRecords
    /\ outcome.call.coopId \notin DOMAIN scheduledReminders
    /\ \E t \in timers : t.coopId # outcome.call.coopId

----------------------------------------------------------------------------
(* The reminder branch of the report, checked under SpecFeed *)

\* the report of this outcome was not to attempt arming: it did not ask for a
\* reminder, or feeding was already due at its instant
NoArmingAsked(o) ==
    \/ ~o.call.scheduleReminder
    \/ /\ o.call.coopId \in DOMAIN feedingRecords'
       /\ now' >= feedingRecords'[o.call.coopId].nextFeedAt

\* C31: arming is attempted only when scheduleReminder is true and feeding is
\* not already due.  A report with scheduleReminder = false or with
\* now >= nextFeedAt does not consult the approval gate (it is neither
\* suspended at the gate nor ended by it), leaves the pending timers and the
\* reminder map as they were, and returns reminderScheduled = false.
C31_ArmingOnlyWhenAskedAndNotDue ==
    [][/\ (Completed(outcome') /\ Direct /\ NoArmingAsked(outcome'))
            => /\ outcome'.gate = "none"
               /\ TimersUnchanged
               /\ ~outcome'.reminderScheduled
       /\ \A p \in pending' \ pending :
              /\ p.call.scheduleReminder
              /\ now' < p.record.nextFeedAt]_vars

\* a report asking for a reminder exactly at nextFeedAt returned while an
\* earlier reminder of the coop is still pending
C31_Witness ==
    /\ outcome.kind = "result"
    /\ outcome.call.scheduleReminder
    /\ outcome.call.intervalHours < 6
    /\ now = outcome.nextAt
    /\ ~outcome.reminderScheduled
    /\ \E t \in timers : t.coopId = outcome.call.coopId

----------------------------------------------------------------------------
(* The delay of the reminder timer, checked under SpecDelay *)

\* C32: every reminder timer was given the delay min(nextFeedAt - now,
\* 2147483647) ms, taken at the instant it was armed; the delay is strictly
\* positive and at most 2147483647, so it fits a signed 32-bit count of ms
\* and the runtime uses it as given instead of replacing it by 1 ms; and
\* every call with nextFeedAt in the future arms such a timer.
C32_DelayClampedAndPositive ==
    /\ \A t \in timers :
          LET timeUntil == WideSub(t.feedTime, WideFromMs(t.armedAt))
          IN /\ WidePositive(timeUntil)
             /\ t.delay = IF WideLeq(timeUntil, MaxTimeoutWide) THEN timeUntil
                           ELSE MaxTimeoutWide
             /\ WidePositive(t.delay)
             /\ WideLeq(t.delay, MaxTimeoutWide)
             /\ t.delay.h * MsPerHour + t.delay.ms \in 1..MAX_TIMEOUT
             /\ t.after = t.delay
    /\ outcome.kind = "scheduleReminder"
          => /\ outcome.reminderScheduled
                  <=> WidePositive(WideSub(outcome.nextAt, WideFromMs(now)))
             /\ outcome.reminderScheduled
                  => \E t \in timers : /\ t.coopId = outcome.call.coopId
                                       /\ t.feedTime = outcome.nextAt
                                       /\ t.armedAt = now

\* a timer armed for an instant more than 2147483647 ms ahead got the maximum
\* delay, next to one armed for an instant 1 ms ahead
C32_Witness ==
    /\ \E t \in timers :
          /\ ~WideLeq(WideSub(t.feedTime, WideFromMs(t.armedAt)), MaxTimeoutWide)
          /\ t.delay = MaxTimeoutWide
          /\ t.after = MaxTimeoutWide
    /\ \E t \in timers : t.delay = Wide(0, 1)

----------------------------------------------------------------------------
(* The status of a report, checked under SpecStatus *)

\* C33: the status of a returned report depends on now and nextFeedAt alone:
\* due is true exactly when now >= nextFeedAt; the message is the overdue
\* notice exactly when now - nextFeedAt is more than 60 minutes, the due
\* notice when 0 <= now - nextFeedAt <= 60 minutes, the prepare-soon notice
\* when 0 < nextFeedAt - now < 1 hour, and the on-schedule notice otherwise.
C33_StatusFromNowAndNextFeedAt ==
    outcome.kind = "result" =>
        LET late == now - outcome.nextAt
        IN /\ outcome.due <=> late >= 0
           /\ outcome.status = "overdue" <=> late > OVERDUE_MINUTES * MsPerMinute
           /\ (late >= 0 /\ late <= OVERDUE_MINUTES * MsPerMinute)
                  => outcome.status = "due"
           /\ (late < 0 /\ -late < MsPerHour) => outcome.status = "soon"
           /\ (late < 0 /\ -late >= MsPerHour) => outcome.status = "onschedule"

----------------------------------------------------------------------------
(* The answers to a subscribe call, checked under SpecRegistry *)

\* the result in r is the one a subscribe call reports once it is through
SubscribeDone(r) ==
    r.action = "subscribe" /\ Len(r.subscribed) + Len(r.failed) > 0

\* in this step the transport answers the i-th request of the call c
AnsweredNow(c, i) ==
    /\ BagIn(c, subCalls)
    /\ i \in c.waiting
    /\ IF c.waiting = {i}
       THEN subCalls' = Resolved(c) /\ SubscribeDone(mqttResult')
       ELSE \E d \in BagToSet(subCalls') :
                /\ subCalls' = Progressed(c, d)
                /\ d.waiting = c.waiting \ {i}

\* the call's lists of acknowledged and rejected patterns after that answer
ListsAfter(c, i) ==
    IF c.waiting = {i}
    THEN [subscribed |-> mqttResult'.subscribed, failed |-> mqttResult'.failed]
    ELSE LET d == CHOOSE d \in BagToSet(subCalls') :
                      /\ subCalls' = Progressed(c, d)
                      /\ d.waiting = c.waiting \ {i}
         IN [subscribed |-> d.subscribed, failed |-> d.failed]

\* C34: a subscribe call reports its result only in the step that answers
\* the last of its requests, when every requested pattern is listed as
\* subscribed or failed, and success is reported exactly when some pattern was
\* acknowledged.  Each answer either acknowledges its pattern, which then holds
\* the call's entry in the registry while every other entry stays, or rejects
\* it, which leaves the registry unchanged and lists the pattern as failed;
\* and a pattern enters the registry only by such an acknowledgement.
C34_ResultAfterEveryAnswer ==
    [][/\ SubscribeDone(mqttResult') =>
            /\ mqttResult'.success <=> Len(mqttResult'.subscribed) > 0
            /\ \E c \in BagToSet(subCalls) :
                   /\ subCalls' = Resolved(c)
                   /\ Cardinality(c.waiting) = 1
                   /\ Len(mqttResult'.subscribed) + Len(mqttResult'.failed)
                          = Len(c.topics)
                   /\ Range(mqttResult'.subscribed) \cup Range(mqttResult'.failed)
                          = Range(c.topics)
       /\ \A c \in BagToSet(subCalls) : \A i \in c.waiting :
              AnsweredNow(c, i) =>
                  LET p == c.topics[i]
                      after == ListsAfter(c, i)
                      acked == after.subscribed = Append(c.subscribed, p)
                                   /\ after.failed = c.failed
                      rejected == after.failed = Append(c.failed, p)
                                      /\ after.subscribed = c.subscribed
                  IN /\ acked \/ rejected
                     /\ acked =>
                            /\ p \in SubKeys(subscriptions')
                            /\ SubGet(subscriptions', p) =
                                   [topic |-> p, qos |-> c.qos, filter |-> c.filter,
                                    paused |-> FALSE]
                            /\ SubKeys(subscriptions') = SubKeys(subscriptions) \cup {p}
                            /\ \A q \in SubKeys(subscriptions) \ {p} :
                                   SubGet(subscriptions', q) = SubGet(subscriptions, q)
                     /\ rejected => subscriptions' = subscriptions
       /\ \A p \in SubKeys(subscriptions') \ SubKeys(subscriptions) :
              \E c \in BagToSet(subCalls) : \E i \in c.waiting :
                  /\ AnsweredNow(c, i)
                  /\ c.topics[i] = p
                  /\ ListsAfter(c, i).subscribed = Append(c.subscribed, p)]_vars

\* a call for two patterns returned success with one pattern acknowledged and
\* in the registry, the other rejected and not in it
C34_Witness ==
    /\ SubscribeDone(mqttResult)
    /\ mqttResult.success
    /\ Len(mqttResult.subscribed) = 1
    /\ Len(mqttResult.failed) = 1
    /\ mqttResult.subscribed[1] \in SubKeys(subscriptions)
    /\ mqttResult.failed[1] \notin SubKeys(subscriptions)

----------------------------------------------------------------------------
(* Subscribe calls, checked under FairSubscribe and SpecSubscribe *)

\* the subscribe calls as they are when handed to the transport
FreshCalls ==
    {[topics |-> ts, qos |-> ParseQos(c.qos), filter |-> c.filter,
      waiting |-> 1..Len(ts), subscribed |-> <<>>, failed |-> <<>>] :
        ts \in AnyTopicLists, c \in MqttConfigs}

\* C35: every subscribe call made on a connected client, for any list of
\* patterns, the empty list included, eventually returns its result: the call
\* stops waiting and the result lists each requested pattern as subscribed
\* or failed.
C35_EverySubscribeReturns ==
    \A c \in FreshCalls :
        BagIn(c, subCalls) ~>
            (/\ mqttResult.action = "subscribe"
             /\ Range(mqttResult.subscribed) \cup Range(mqttResult.failed)
                    = Range(c.topics))

\* C36: when a subscribe call has returned success, handleMessage is a
\* message listener of the client exactly once, whether or not the memory
\* bridge's handler was attached before.
C36_DispatcherRegisteredOnce ==
    (mqttResult.action = "subscribe" /\ mqttResult.success) => listening = 1

----------------------------------------------------------------------------
(* Rate-limited calls of the evaluator, checked under SpecTemp *)

\* C37: a rate-limited checkSafety call changes nothing: the limiter's
\* last-call time, the temperature cache and the store are after it what they
\* were before, so the last-call time is still the instant of the last call
\* that was let through and a rejected call does not extend the window.
C37_RateLimitedChangesNothing ==
    [][tempResult'.kind = "RateLimited" =>
          /\ lastCallTime' = lastCallTime
          /\ tempCache' = tempCache
          /\ sensorMemoryStore' = sensorMemoryStore
          /\ accepted' = accepted
          /\ accepted.any /\ lastCallTime' = accepted.at]_vars

\* a call was rejected 4999 ms after the call that filled the cache
C37_Witness ==
    /\ tempResult.kind = "RateLimited"
    /\ now - lastCallTime = 4999
    /\ tempResult.call.coopId \in DOMAIN tempCache

----------------------------------------------------------------------------
(* The record of a report that meets the approval gate, checked under SpecFeed *)

\* the record a report builds from its lastFedAt and intervalHours
RecordOf(call) ==
    [lastFedAt |-> call.lastFedAt.ms,
     nextFeedAt |-> call.lastFedAt.ms + call.intervalHours * 3600000,
     coopId |-> call.coopId,
     intervalHours |-> call.intervalHours]

Supplied(call) == call.lastFedAt.kind = "iso"

\* the coop's stored record is the one built from the call
Stored(call, records) ==
    call.coopId \in DOMAIN records /\ records[call.coopId] = RecordOf(call)

\* C38 as stated: when a report that supplied lastFedAt is denied by the
\* gate, or fails because no gate is registered, the coop's stored record is
\* the one built from that report's lastFedAt and intervalHours.
C38_RecordOfDeniedReportStored ==
    (outcome.gate \in {"denied", "unregistered"} /\ Supplied(outcome.call))
        => Stored(outcome.call, feedingRecords)

\* C38, amended: the record is stored before the gate is consulted and the
\* gate's answer does not undo it.  A report that supplied lastFedAt has
\* stored its record in the step in which it starts to wait for the gate, and
\* when it fails because no gate is registered; the step in which the gate
\* denies (or fails) changes no record.
C38_RecordCommittedBeforeGate ==
    [][/\ \A p \in pending' \ pending :
              Supplied(p.call) => Stored(p.call, feedingRecords')
       /\ (outcome'.gate = "unregistered" /\ Supplied(outcome'.call))
              => Stored(outcome'.call, feedingRecords')
       /\ outcome'.gate \in {"denied", "threw"}
              => feedingRecords' = feedingRecords]_vars

\* the gate denied a report whose record, with its 5-hour interval, is stored
C38_Witness ==
    /\ outcome.gate = "denied"
    /\ Supplied(outcome.call)
    /\ outcome.call.intervalHours = 5
    /\ Stored(outcome.call, feedingRecords)

----------------------------------------------------------------------------
(* Re-subscribing to a paused pattern, checked under SpecDispatch *)

\* C39: an acknowledged subscribe to a pattern whose subscription is paused
\* leaves the entry not paused; no pattern a returning subscribe call lists
\* as subscribed is paused; and a subscription that was paused by a call and
\* re-subscribed since, with no resume call, stores the matching messages
\* its filter accepts.
C39_ResubscribeUnpauses ==
    [][/\ \A p \in MqttPatterns :
            /\ (AckedFor(p) /\ IsPaused(subscriptions, p))
                  => (p \in SubKeys(subscriptions') /\ ~IsPaused(subscriptions', p))
            /\ (mqttResult'.action = "subscribe" /\ mqttResult'.success
                 /\ p \in Range(mqttResult'.subscribed))
                  => (p \in SubKeys(subscriptions') /\ ~IsPaused(subscriptions', p))
       /\ delivery'.handled =>
            \A i \in Accepting(subscriptions, delivery') :
                subscriptions[i].topic \in pausedSince
                    => subscriptions[i].topic \in Range(delivery'.storedBy)]_vars

\* a message was stored through a subscription that had been paused and then
\* subscribed again, with no resume in between
C39_Witness ==
    /\ delivery.handled
    /\ \E i \in 1..Len(subscriptions) :
           /\ subscriptions[i].topic \in pausedSince
           /\ ~subscriptions[i].paused
           /\ topicMatches(delivery.topic, subscriptions[i].topic)
           /\ subscriptions[i].topic \in Range(delivery.storedBy)

----------------------------------------------------------------------------
(* The evaluator's calls for different coops, checked under SpecCoops *)

\* some event on a temperature topic has a null payload
NullOnTempTopic ==
    \E i \in 1..Len(sensorMemoryStore) :
        /\ sensorMemoryStore[i].topic \in {"coop/temp", "barn/temp"}
        /\ sensorMemoryStore[i].data.kind = "null"

\* the qualifying event of greatest timestamp, the first stored of them
LatestQualifying ==
    CHOOSE i \in Qualifying :
        \A j \in Qualifying :
            \/ sensorMemoryStore[j].timestamp < sensorMemoryStore[i].timestamp
            \/ (sensorMemoryStore[j].timestamp = sensorMemoryStore[i].timestamp /\ i <= j)

\* C40: what a call that misses the cache obtains from a store holding a
\* temperature event is the same for every coopId: the call fails when an
\* event on a temperature topic has a null payload, and otherwise returns,
\* and caches under its own coopId, the reading of the latest temperature
\* event of the store, whichever coop that event was published for.
C40_StoreReadIgnoresCoop ==
    [][(CallAccepted /\ CacheMiss(tempResult'.call.coopId) /\ Qualifying # {}) =>
          LET c == tempResult'.call.coopId
              e == sensorMemoryStore[LatestQualifying]
              reading == [temperature |-> e.data.num, timestamp |-> e.timestamp,
                          source |-> "mqtt-shared-memory"]
          IN IF NullOnTempTopic
             THEN tempResult'.kind = "TypeError" /\ tempCache' = tempCache
             ELSE /\ tempResult'.kind = "result"
                  /\ ResultReading(tempResult') = reading
                  /\ tempCache' = MapSet(tempCache, c, reading)]_vars

\* a call for coop "north" missed the cache and returned the event on
\* coop/temp that a call for coop "main" had returned and cached before
C40_Witness ==
    /\ tempResult.kind = "result"
    /\ tempResult.call.coopId = "north"
    /\ tempResult.source = "mqtt-shared-memory"
    /\ cachedAt = [c \in Coops |-> IF c = "north" THEN now ELSE now - 5000]
    /\ tempCache = [c \in Coops |-> ResultReading(tempResult)]
    /\ \E i \in 1..Len(sensorMemoryStore) :
           /\ sensorMemoryStore[i].topic = "coop/temp"
           /\ sensorMemoryStore[i].timestamp = tempResult.timestamp

====
